---- MODULE Spec2Model ----
(***************************************************************************)
(* Model of the tip-detection pipeline of the Solana tip SDK.              *)
(*                                                                         *)
(* TipIndexer (src/src/core/TipIndexer.js) is modelled at the granularity  *)
(* of its await points: every storage call and every ledger RPC call is a  *)
(* suspension point at which start(), stop(), timers, registrations and    *)
(* other poll chains may interleave.  A signature of an address is its     *)
(* position in the chronological history of that address (1 = oldest).     *)
(*                                                                         *)
(* WebSocketBroadcaster (src/unnamed/part_004) is synchronous: every event *)
(* handler and broadcastTip are one step each.                             *)
(***************************************************************************)
EXTENDS Integers, Sequences, FiniteSets, TLC

\* ------------------------------------------------------------------ bounds
MaxTx == 3           \* transactions that arrive per address
MaxTasks == 2        \* poll chains (calls of poll()) alive at the same time
MaxSignatureLimit == 2  \* largest configured options.signatureLimit (default 20)
MaxHandlers == 3     \* handlers registered with on('tip', ...)
MaxAlertsPerWindow == 2  \* options.maxAlertsPerWindow (default 4)
AlertWindowMs == 2   \* options.alertWindowMs in clock ticks (default 10000 ms)
MaxTime == 2         \* last value of the clock read by Date.now()
MaxAccounts == 3     \* accounts of a transaction given to parseTipTransaction
MaxBalance == 2      \* largest balance of an account, in lamports
MaxInstructions == 2 \* instructions of a transaction given to extractMemo
MaxSockets == 2      \* WebSocket objects of one OverlayClient that are not closed yet

Ids == {"alice", "bob"}
FirstIds == {"alice"}
Addrs == {"addrX"}
Tasks == 1..MaxTasks
Sigs == 1..MaxTx
TxDeltas == {0, 1}   \* balance change of the target address in a transaction
Handlers == {"h1", "h2", "h3"}   \* functions passed to on('tip', ...)
ConnOrder == <<"c1", "c2">>      \* WebSocket objects in the order in which the server
                                 \* hands them to the 'connection' handler
Conns == {ConnOrder[i] : i \in 1..Len(ConnOrder)}
OPEN == 1                        \* ws.readyState of a connection in service

VARIABLES
  signatureLimit, \* TipIndexer.options.signatureLimit, fixed by the constructor
  polling,      \* TipIndexer.polling
  pollTimer,    \* TipIndexer.pollTimer: the task whose timer id is stored, 0 = null
  streamers,    \* storage: sequence of [id, pubkey, message] in Map insertion order
  lastSeen,     \* storage: pubkey -> last seen signature, 0 = absent
  ledger,       \* the ledger: address -> chronological sequence of balance deltas
  task,         \* one record per poll chain: position and local variables
  emitted,      \* history: address -> signatures for which 'tip' has been emitted
  tipMemo,      \* history: the latest processTransaction whose tipData was observed
  emittedFor,   \* history: recipientId -> signatures of the observed 'tip' events emitted
                \* with that streamerId
  lost,         \* history: address -> signatures whose tip the SDK's handler passed to a
                \* broadcaster without a WebSocket server
  dbFile,       \* LowdbAdapter: the content of the JSON file
  dbData,       \* LowdbAdapter.db.data: the object the last read() or init() left
  dbCall,       \* LowdbAdapter: one record per method call: position, argument, the
                \* content its read() got from the file, its return value
  dbWrites,     \* the file writer of lowdb: the texts handed to it, in the order of the
                \* write() calls, that have not reached the file yet
  ws,           \* OverlayClient.ws: the socket it refers to, 0 = null
  sock,         \* socket -> readyState: 0 CONNECTING, 1 OPEN, 2 CLOSING, 3 CLOSED (its close
                \* event delivered, or not created)
  reconnectAttempts, \* OverlayClient.reconnectAttempts
  connected,    \* OverlayClient.connected
  pingInterval, \* OverlayClient.pingInterval is not null
  heartbeats,   \* the setInterval timers of startHeartbeat that have not been cleared
  timeouts,     \* the setTimeout timers of reconnect() that have not fired
  wanted,       \* history: what the application asked for last: "" nothing yet, "connect",
                \* "disconnect" (disconnect() on a connected client), "abandon"
                \* (disconnect() on a client that was not connected)
  delay,        \* history: the delay of the latest setTimeout of reconnect(), 0 = none yet
  cev,          \* history: the latest step of the client
  processed,    \* history: address -> signatures on which processTransaction has run
  eventHandlers, \* TipIndexer.eventHandlers.get('tip'): handlers in registration order
  lastEmit,     \* history: the latest call of emit('tip', data)
  wss,          \* WebSocketBroadcaster.wss is set (init() has run)
  clients,      \* wss.clients: connections in insertion order
  readyState,   \* ws.readyState: 0 not yet accepted, 1 OPEN, 2 CLOSING, 3 CLOSED
  isAlive,      \* ws.isAlive
  subscriptions, \* WebSocketBroadcaster.subscriptions: connection -> Set in insertion
                \* order, <<>> = no entry
  resubscribed, \* history: connections that subscribed again to a recipient they had
  closedSubs,   \* history: closed connection -> the recipients it was subscribed to
  alertCounts,  \* WebSocketBroadcaster.alertCounts: recipient -> timestamps
  now,          \* the clock read by Date.now()
  accepted,     \* history: recipient -> timestamps of the publishes that passed the limiter
  pub,          \* history: the latest call of broadcastTip
  everSubscribed, \* history: connection -> the recipients it has subscribed to since it opened
  ignored,      \* history: the latest inbound message that handleMessage did not act on
  awaiting,     \* history: connection -> a ping is out that no pong has answered
  terminated,   \* history: connections the heartbeat has terminated
  reg,          \* history: the latest call of StreamerRegistry.register
  parsed        \* history: the latest call of parseTipTransaction

hvars == <<eventHandlers, lastEmit>>
wshist == <<everSubscribed, ignored, awaiting, terminated>>
wsvars == <<wss, clients, readyState, isAlive, subscriptions, resubscribed, closedSubs,
            alertCounts, now, accepted, pub, wshist>>
rvars == <<reg>>
pvars == <<parsed>>
mvars == <<tipMemo, emittedFor, lost>>
dvars == <<dbFile, dbData, dbCall, dbWrites>>
cvars == <<ws, sock, reconnectAttempts, connected, pingInterval, heartbeats, timeouts, wanted,
           delay, cev>>
vars == <<signatureLimit, polling, pollTimer, streamers, lastSeen, ledger, task, emitted,
          processed, hvars, wsvars, rvars, pvars, mvars, dvars, cvars>>

\* ----------------------------------------------------------------- helpers
Min(a, b) == IF a < b THEN a ELSE b
Max(a, b) == IF a > b THEN a ELSE b

Reverse(s) == [i \in 1..Len(s) |-> s[Len(s) + 1 - i]]

Range(s) == {s[i] : i \in 1..Len(s)}

\* no call of emit('tip', data) yet.  handlers: the handlers registered when
\* emit was called; bad: the handlers that throw on this event; calls: the
\* handlers invoked, in order; propagated: emit threw to its caller
NoEmit == [handlers |-> <<>>, bad |-> {}, calls |-> <<>>, propagated |-> FALSE]

\* no call of broadcastTip yet.  k: the number of calls modulo 2; result:
\* "dropped" by the limiter, "done" when the fan-out returned, "threw" when
\* broadcastTip threw; sent: the connections on which ws.send(message) was
\* called, in order; failed: those among them whose socket write failed;
\* targets: the open connections subscribed to the recipient at the call;
\* others: the open connections subscribed to other recipients only; resub:
\* the connections that had subscribed again before the call; closing,
\* closed: the connections in that state at the call that had subscribed to
\* the recipient (others, resub, closing, closed: of a fan-out only)
NoPub == [k |-> 0, id |-> "", result |-> "none", sent |-> <<>>, failed |-> {},
          targets |-> {}, others |-> {}, resub |-> {}, closing |-> {}, closed |-> {}]

\* the proofs of registration: a signature is well encoded ("ok": base58 of
\* 64 bytes, made over msg with the secret key of key), not base58 ("bad58"),
\* base58 of another length ("short") or absent ("missing"); a pubkey is an
\* address, "" (absent) or not base58
Pubkeys == Addrs \cup {"addrY"}
Messages == {"m1", "m2"}
FirstMessages == {"m1"}
NoSig == [enc |-> "missing", msg |-> "", key |-> ""]
Signatures == [enc : {"ok"}, msg : Messages, key : Pubkeys]
                \cup [enc : {"bad58", "short"}, msg : {""}, key : {""}]
                \cup {NoSig}
PubkeyInputs == Pubkeys \cup {"", "notBase58"}

\* no binding (getStreamer returns undefined or null)
NoBinding == [pubkey |-> "", message |-> ""]

\* register has not been called; storage: "none" (not called), "resolved" or
\* "rejected"; attempts: calls of storage.registerStreamer; rebound: before
\* the call streamerId was bound to another address and another message
NoReg == [k |-> 0, streamerId |-> "", pubkey |-> "", message |-> "", signature |-> NoSig,
          storage |-> "none", attempts |-> 0, result |-> "none", threw |-> FALSE,
          rebound |-> FALSE]
\* the accounts of a transaction, and the transactions getTransaction may
\* return: no transaction (null, or one without meta) or account keys, all
\* different, with a balance before and after for each
Accounts == Addrs \cup {"payer", "other"}
KeyLists ==
  {k \in UNION {[1..n -> Accounts] : n \in 1..MaxAccounts} :
     \A i, j \in DOMAIN k : k[i] = k[j] => i = j}
NullTx == [meta |-> FALSE, accountKeys |-> <<>>, preBalances |-> <<>>, postBalances |-> <<>>]
Transactions ==
  {NullTx} \cup
  UNION {[meta : {TRUE}, accountKeys : {k},
          preBalances : [DOMAIN k -> 0..MaxBalance],
          postBalances : [DOMAIN k -> 0..MaxBalance]] : k \in KeyLists}

\* the instructions of a transaction: the program each one addresses and its
\* data, absent (""), the base58 of the text "gm", or not base58 at all
MEMO_PROGRAM_ID == "MemoSq4gqABAXKb96qnH8TysNcWxMyWCqXgDLGmfcHr"
SYSTEM_PROGRAM_ID == "11111111111111111111111111111111"
Instructions ==
  {ix \in [programId : {MEMO_PROGRAM_ID, SYSTEM_PROGRAM_ID}, data : {"", "b58:gm", "0OIl"}] :
     ix.programId = MEMO_PROGRAM_ID \/ ix.data = "b58:gm"}
InstructionLists == UNION {[1..n -> Instructions] : n \in 0..MaxInstructions}

\* the results of extractMemo: null, a text, or an exception
MemoNull == [kind |-> "null", text |-> ""]
MemoThrow == [kind |-> "throw", text |-> ""]

\* no transaction with instructions has been processed yet
NoMemo == [txHash |-> 0, tip |-> FALSE, undecodable |-> FALSE, decodable |-> FALSE,
           memo |-> "no event"]

\* the content of the Lowdb file and of db.data after init(), part_002 lines
\* 17-25: the recipientIds bound (to addrX) and the cursor of addrX, 0 = absent
EmptyDb == [streamers |-> {}, lastSeen |-> 0]

\* the methods of LowdbAdapter that are called while the server runs
DbWriters == {"registerStreamer", "updateLastSeen"}
DbReaders == {"getStreamer", "getLastSeen"}
DbCalls == DbWriters \cup DbReaders

\* a method that has not been called.  pc: "idle", "reading" (db.read() is
\* awaited, the file not yet read), "read" (the file has been read, the call
\* not yet resumed), "writing" (db.write() is awaited), "done"; arg: the
\* recipientId or the signature passed; buf: what the file held when it was
\* read; result: what a reader returned; after: the call began when both
\* writers had completed
NoCall == [pc |-> "idle", arg |-> "", buf |-> EmptyDb, result |-> "", after |-> FALSE]

\* the sockets of an OverlayClient and WebSocket.readyState
Sockets == 1..MaxSockets
CONNECTING == 0
CLOSING == 2
CLOSED == 3

\* OverlayClient constructor, part_005 lines 132-133
maxReconnectAttempts == 10
reconnectDelay == 2000

\* the client has done nothing yet.  type: the handler that ran; socket: the
\* socket whose event it handled or that it created, 0 = none; events: the
\* events it emitted; subscribe, ping: the socket on which it sent that
\* message, 0 = not sent; state: the readyState of the socket it sent on
NoStep == [k |-> 0, type |-> "", socket |-> 0, events |-> <<>>, subscribe |-> 0, ping |-> 0,
           state |-> CLOSED]

\* the results of parseTipTransaction: not yet called, null, or a tip
Pending == [kind |-> "pending", from |-> "", amountLamports |-> 0]
Null == [kind |-> "null", from |-> "", amountLamports |-> 0]
NoParsed == [transaction |-> NullTx, targetPubkey |-> "", result |-> Pending]

\* no message has been ignored yet; c: the connection, subs: the size of its
\* subscription at that message
NoIgnored == [k |-> 0, c |-> "", subs |-> 0]

\* pc: position of the chain; todo: recipients left in the cycle, the head
\* being the one in work; ls: the local lastSeen (0 again once the page is
\* fetched: the page then holds no signature equal to it); page: signatures
\* left in the page, oldest first, the head being the one in work; outcome:
\* what processTransaction did with that signature (history, "" outside "upd");
\* failed: the recipients whose processing ended in the catch block of
\* checkStreamerTips in the latest cycle of the chain (history)
IdleTask == [pc |-> "idle", todo |-> <<>>, ls |-> 0, page |-> <<>>, outcome |-> "",
             failed |-> {}]

\* pcs at which a poll cycle is in flight (between the guard of poll() and
\* the setTimeout that ends it)
CyclePcs == {"getAll", "lastSeen", "sigs", "tx", "upd"}

InFlight == {p \in Tasks : task[p].pc \in CyclePcs}

\* a ledger node that ignores `limit` and returns everything after `until`
getSignaturesForAddress_noLimit(a, until, limit, incl) ==
  LET n  == Len(ledger[a])
      lo == IF until = 0 THEN 1 ELSE IF incl THEN until ELSE until + 1
      k  == Max(0, n - lo + 1)
  IN  [i \in 1..k |-> n + 1 - i]

\* connection.getSignaturesForAddress(publicKey, {limit, until}): the newest
\* `limit` signatures of the address, newest first, going back no further
\* than `until`; `incl` says whether the page overlaps the `until` signature.
getSignaturesForAddress(a, until, limit, incl) ==
  LET n  == Len(ledger[a])
      lo == IF until = 0 THEN 1 ELSE IF incl THEN until ELSE until + 1
      k  == Max(0, Min(limit, n - lo + 1))
  IN  [i \in 1..k |-> n + 1 - i]

\* parseTipTransaction: a tip is a positive balance change of the target
parseTipTransaction(delta) == delta > 0

\* the loop header of checkStreamerTips: signatures equal to lastSeen are skipped
SkipSeen(page, ls) == SelectSeq(page, LAMBDA s : s # ls)

\* poll(), line 75: schedule the next poll and store its timer id
ScheduleWith(p, f) ==
  /\ task' = [task EXCEPT ![p] = [IdleTask EXCEPT !.pc = "timer", !.failed = f]]
  /\ pollTimer' = p

Schedule(p) == ScheduleWith(p, task[p].failed)

\* the for loop of poll(): go on with the recipients in `rest`, or finish the cycle
NextStreamerWith(p, rest, f) ==
  IF rest = <<>>
  THEN ScheduleWith(p, f)
  ELSE /\ task' = [task EXCEPT ![p] = [IdleTask EXCEPT !.pc = "lastSeen", !.todo = rest,
                                                       !.failed = f]]
       /\ UNCHANGED pollTimer

NextStreamer(p, rest) == NextStreamerWith(p, rest, task[p].failed)

\* an error of a recipient that leaves poll(): no timer is set
Catch_endsLoop(p) ==
  /\ task' = [task EXCEPT ![p] = IdleTask]
  /\ UNCHANGED pollTimer

\* checkStreamerTips, lines 116-118: the catch block logs the error of the
\* recipient in work; poll() goes on with the next recipient
Catch(p) ==
  NextStreamerWith(p, Tail(task[p].todo), task[p].failed \cup {Head(task[p].todo).id})

\* the for loop of checkStreamerTips: go on with the signatures in `rest`
NextSignature(p, rest) ==
  IF rest = <<>>
  THEN NextStreamer(p, Tail(task[p].todo))
  ELSE /\ task' = [task EXCEPT ![p].pc = "tx", ![p].ls = 0, ![p].page = rest,
                               ![p].outcome = ""]
       /\ UNCHANGED pollTimer

\* ------------------------------------------------------------------- Init
InitBase ==
  /\ signatureLimit \in 1..MaxSignatureLimit
  /\ polling = FALSE
  /\ pollTimer = 0
  /\ streamers = <<>>
  /\ lastSeen = [a \in Addrs |-> 0]
  /\ ledger = [a \in Addrs |-> <<>>]
  /\ task = [p \in Tasks |-> IdleTask]
  /\ emitted = [a \in Addrs |-> {}]
  /\ emittedFor = [id \in Ids |-> {}]
  /\ tipMemo = NoMemo
  /\ lost = [a \in Addrs |-> {}]
  /\ dbFile = EmptyDb
  /\ dbData = EmptyDb
  /\ dbCall = [c \in DbCalls |-> NoCall]
  /\ dbWrites = <<>>
  /\ ws = 0
  /\ sock = [i \in Sockets |-> CLOSED]
  /\ reconnectAttempts = 0
  /\ connected = FALSE
  /\ pingInterval = FALSE
  /\ heartbeats = 0
  /\ timeouts = 0
  /\ wanted = ""
  /\ delay = 0
  /\ cev = NoStep
  /\ processed = [a \in Addrs |-> {}]
  /\ eventHandlers = <<>>
  /\ lastEmit = NoEmit
  /\ wss = FALSE
  /\ clients = <<>>
  /\ readyState = [c \in Conns |-> 0]
  /\ isAlive = [c \in Conns |-> FALSE]
  /\ subscriptions = [c \in Conns |-> <<>>]
  /\ resubscribed = {}
  /\ closedSubs = [c \in Conns |-> {}]
  /\ alertCounts = [id \in Ids |-> <<>>]
  /\ now = 0
  /\ accepted = [id \in Ids |-> <<>>]
  /\ pub = NoPub
  /\ everSubscribed = [c \in Conns |-> {}]
  /\ ignored = NoIgnored
  /\ awaiting = [c \in Conns |-> FALSE]
  /\ terminated = {}
  /\ reg = NoReg

\* the state after construction; parseTipTransaction has not been called
Init == InitBase /\ parsed = NoParsed

\* the broadcaster after construction; the indexer, which the broadcaster
\* never reads, is left at its smallest configuration
InitWS == Init /\ signatureLimit = 1

\* ---------------------------------------------------------------- actions

\* a store that keeps the first binding of a recipient
SetStreamer_keepsFirst(map, id, pubkey, message) ==
  IF \E i \in 1..Len(map) : map[i].id = id
  THEN map
  ELSE Append(map, [id |-> id, pubkey |-> pubkey, message |-> message])

\* MemoryAdapter.registerStreamer, lines 16-20 (LowdbAdapter, lines 29-33):
\* Map.set replaces the value of a known key and keeps its position
SetStreamer(map, id, pubkey, message) ==
  IF \E i \in 1..Len(map) : map[i].id = id
  THEN [i \in 1..Len(map) |->
          IF map[i].id = id
          THEN [id |-> id, pubkey |-> pubkey, message |-> message]
          ELSE map[i]]
  ELSE Append(map, [id |-> id, pubkey |-> pubkey, message |-> message])

\* MemoryAdapter.getStreamer, lines 23-25
getStreamer(map, id) ==
  IF \E i \in 1..Len(map) : map[i].id = id
  THEN LET i == CHOOSE j \in 1..Len(map) : map[j].id = id
       IN  [pubkey |-> map[i].pubkey, message |-> map[i].message]
  ELSE NoBinding

\* storage.registerStreamer called by the application
registerStreamer(id, pubkey, message) ==
  /\ streamers' = SetStreamer(streamers, id, pubkey, message)
  /\ streamers' # streamers
  /\ UNCHANGED <<cvars, dvars, mvars, hvars, wsvars, rvars, pvars, signatureLimit, polling, pollTimer, lastSeen, ledger, task, emitted, processed>>

\* a transaction touching address a is confirmed on the ledger
Arrive(a, delta) ==
  /\ Len(ledger[a]) < MaxTx
  /\ ledger' = [ledger EXCEPT ![a] = Append(@, delta)]
  /\ UNCHANGED <<cvars, dvars, mvars, hvars, wsvars, rvars, pvars, signatureLimit, polling, pollTimer, streamers, lastSeen, task, emitted, processed>>

\* TipIndexer.start: polling = true, then poll() runs up to its first await
start(p) ==
  /\ task[p].pc = "idle"
  /\ \A q \in Tasks : q < p => task[q].pc # "idle"
  /\ polling' = TRUE
  /\ task' = [task EXCEPT ![p].pc = "getAll"]
  /\ UNCHANGED <<cvars, dvars, mvars, hvars, wsvars, rvars, pvars, signatureLimit, pollTimer, streamers, lastSeen, ledger, emitted, processed>>

\* TipIndexer.stop: polling = false, clearTimeout(pollTimer)
stop ==
  /\ polling' = FALSE
  /\ pollTimer' = 0
  /\ task' = IF pollTimer # 0 /\ task[pollTimer].pc = "timer"
             THEN [task EXCEPT ![pollTimer] = IdleTask]
             ELSE task
  /\ \/ polling
     \/ pollTimer # 0
  /\ UNCHANGED <<cvars, dvars, mvars, hvars, wsvars, rvars, pvars, signatureLimit, streamers, lastSeen, ledger, emitted, processed>>

\* poll() without its guard on this.polling
poll_noGuard(p) ==
  /\ task[p].pc = "timer"
  /\ task' = [task EXCEPT ![p] = [IdleTask EXCEPT !.pc = "getAll"]]
  /\ UNCHANGED <<cvars, dvars, mvars, hvars, wsvars, rvars, pvars, signatureLimit, polling, pollTimer, streamers, lastSeen, ledger, emitted, processed>>

\* the timer of poll() fires: poll() runs up to its first await
poll(p) ==
  /\ task[p].pc = "timer"
  /\ task' = [task EXCEPT ![p] = [IdleTask EXCEPT !.pc = IF polling THEN "getAll" ELSE "idle"]]
  /\ UNCHANGED <<cvars, dvars, mvars, hvars, wsvars, rvars, pvars, signatureLimit, polling, pollTimer, streamers, lastSeen, ledger, emitted, processed>>

\* poll(), line 65: storage.getAllStreamers() resolves or rejects
getAllStreamers(p, ok) ==
  /\ task[p].pc = "getAll"
  /\ IF ok THEN NextStreamer(p, streamers) ELSE Schedule(p)
  /\ UNCHANGED <<cvars, dvars, mvars, hvars, wsvars, rvars, pvars, signatureLimit, polling, streamers, lastSeen, ledger, emitted, processed>>

\* checkStreamerTips, line 85: storage.getLastSeen(pubkey) resolves or rejects
getLastSeen(p, ok) ==
  /\ task[p].pc = "lastSeen"
  /\ IF ok
     THEN /\ task' = [task EXCEPT ![p].pc = "sigs",
                                  ![p].ls = lastSeen[Head(task[p].todo).pubkey]]
          /\ UNCHANGED pollTimer
     ELSE Catch(p)
  /\ UNCHANGED <<cvars, dvars, mvars, hvars, wsvars, rvars, pvars, signatureLimit, polling, streamers, lastSeen, ledger, emitted, processed>>

\* checkStreamerTips, lines 88-108: the page is fetched, reversed, and the
\* loop runs up to the first await of processTransaction
checkStreamerTips(p, ok, incl) ==
  /\ task[p].pc = "sigs"
  /\ IF ok
     THEN LET a == Head(task[p].todo).pubkey
              signatures == getSignaturesForAddress(a, task[p].ls, signatureLimit, incl)
              newSignatures == Reverse(signatures)
          IN  NextSignature(p, SkipSeen(newSignatures, task[p].ls))
     ELSE Catch(p)
  /\ UNCHANGED <<cvars, dvars, mvars, hvars, wsvars, rvars, pvars, signatureLimit, polling, streamers, lastSeen, ledger, emitted, processed>>

\* TipIndexer.emit('tip', tipData) for signature s of address a
emit(a, s) ==
  emitted' = [emitted EXCEPT ![a] = @ \cup {s}]

\* bs58.decode followed by Buffer.toString('utf-8'), line 111: the text a
\* base58 payload encodes; bs58.decode throws on data that is not base58
Utf8OfBase58(data) ==
  IF data = "b58:gm" THEN [kind |-> "text", text |-> "gm"] ELSE MemoThrow

RECURSIVE extractMemo_noCatch(_)
RECURSIVE extractMemo(_)

\* an extractMemo without the try/catch around the decoding
extractMemo_noCatch(instructions) ==
  IF instructions = <<>>
  THEN MemoNull
  ELSE LET ix == Head(instructions)
       IN  IF ix.programId = MEMO_PROGRAM_ID /\ ix.data # ""
           THEN Utf8OfBase58(ix.data)
           ELSE extractMemo_noCatch(Tail(instructions))

\* extractMemo, part_005 lines 98-119: the text of the first instruction of
\* the memo program with data that decodes; a decoding that throws is caught
\* and the loop goes on with the next instruction
extractMemo(instructions) ==
  IF instructions = <<>>
  THEN MemoNull
  ELSE LET ix == Head(instructions)
       IN  IF ix.programId = MEMO_PROGRAM_ID /\ ix.data # ""
           THEN LET text == Utf8OfBase58(ix.data)
                IN  IF text.kind = "throw"
                    THEN extractMemo(Tail(instructions))
                    ELSE text
           ELSE extractMemo(Tail(instructions))

\* processTransaction: connection.getTransaction resolves ("ok") with a
\* transaction that carries `instructions`, resolves to null ("null") or
\* rejects ("throw"); a tip is emitted; no error leaves processTransaction
\* (an exception of extractMemo would end in the catch of line 160, before
\* the emit), so its caller goes on to updateLastSeen
ProcessTx(p, res, instructions) ==
  /\ task[p].pc = "tx"
  /\ LET a == Head(task[p].todo).pubkey
         s == Head(task[p].page)
         tipInfo == res = "ok" /\ parseTipTransaction(ledger[a][s])
         emits == tipInfo /\ extractMemo(instructions).kind # "throw"
     IN  /\ IF emits THEN emit(a, s) ELSE UNCHANGED emitted
         /\ processed' = [processed EXCEPT ![a] = @ \cup {s}]
         /\ task' = [task EXCEPT ![p].pc = "upd",
                                 ![p].outcome = IF emits THEN "tip"
                                                 ELSE IF res = "ok" /\ ~tipInfo THEN "none"
                                                 ELSE "failed"]
  /\ UNCHANGED <<signatureLimit, polling, pollTimer, streamers, lastSeen, ledger>>

\* processTransaction of an indexer whose 'tip' handlers leave the rest of
\* the program alone, on a transaction without instructions
processTransaction(p, res) ==
  /\ ProcessTx(p, res, <<>>)
  /\ UNCHANGED <<cvars, dvars, hvars, wsvars, rvars, pvars, mvars>>

\* processTransaction on a transaction with instructions, its tipData
\* observed: tipMemo records what the transaction carried and the memo of
\* the tipData emitted, emittedFor its streamerId and txHash, lines 140-157
\* (`memo || undefined`)
memoProcessTransaction(p, res, instructions) ==
  /\ ProcessTx(p, res, instructions)
  /\ LET id == Head(task[p].todo).id
         a == Head(task[p].todo).pubkey
         tipInfo == res = "ok" /\ parseTipTransaction(ledger[a][Head(task[p].page)])
         memo == extractMemo(instructions)
     IN  /\ emittedFor' = IF tipInfo /\ memo.kind # "throw"
                          THEN [emittedFor EXCEPT ![id] = @ \cup {Head(task[p].page)}]
                          ELSE emittedFor
         /\ UNCHANGED lost
         /\ tipMemo' = [txHash |-> Head(task[p].page),
                         tip |-> tipInfo,
                         undecodable |-> \E i \in DOMAIN instructions :
                                           /\ instructions[i].programId = MEMO_PROGRAM_ID
                                           /\ instructions[i].data = "0OIl",
                         decodable |-> \E i \in DOMAIN instructions :
                                         /\ instructions[i].programId = MEMO_PROGRAM_ID
                                         /\ instructions[i].data = "b58:gm",
                         memo |-> IF ~tipInfo \/ memo.kind = "throw" THEN "no event"
                                  ELSE IF memo.kind = "text" /\ memo.text # "" THEN memo.text
                                  ELSE "undefined"]
  /\ UNCHANGED <<cvars, dvars, hvars, wsvars, rvars, pvars>>

\* checkStreamerTips, line 113: storage.updateLastSeen resolves or rejects
updateLastSeen(p, ok) ==
  /\ task[p].pc = "upd"
  /\ IF ok
     THEN /\ lastSeen' = [lastSeen EXCEPT ![Head(task[p].todo).pubkey] = Head(task[p].page)]
          /\ NextSignature(p, Tail(task[p].page))
     ELSE /\ UNCHANGED lastSeen
          /\ Catch(p)
  /\ UNCHANGED <<cvars, dvars, mvars, hvars, wsvars, rvars, pvars, signatureLimit, polling, streamers, ledger, emitted, processed>>

\* overlapping poll chains, with one recipient
Next ==
  \/ \E id \in FirstIds, a \in Addrs, m \in FirstMessages : registerStreamer(id, a, m)
  \/ \E a \in Addrs, d \in TxDeltas : Arrive(a, d)
  \/ \E p \in Tasks : start(p)
  \/ stop
  \/ \E p \in Tasks : poll(p)
  \/ \E p \in Tasks, ok \in BOOLEAN : getAllStreamers(p, ok)
  \/ \E p \in Tasks, ok \in BOOLEAN : getLastSeen(p, ok)
  \/ \E p \in Tasks, ok, incl \in BOOLEAN : checkStreamerTips(p, ok, incl)
  \/ \E p \in Tasks, res \in {"ok", "null", "throw"} : processTransaction(p, res)
  \/ \E p \in Tasks, ok \in BOOLEAN : updateLastSeen(p, ok)

Spec == Init /\ [][Next]_vars

\* A caller that never calls start() while a poll chain is alive: the same
\* program, without overlapping chains.
startSerial(p) ==
  /\ \A q \in Tasks : task[q].pc = "idle"
  /\ start(p)

NextSerial ==
  \/ \E id \in Ids, a \in Addrs, m \in FirstMessages : registerStreamer(id, a, m)
  \/ \E a \in Addrs, d \in TxDeltas : Arrive(a, d)
  \/ \E p \in Tasks : startSerial(p)
  \/ stop
  \/ \E p \in Tasks : poll(p)
  \/ \E p \in Tasks, ok \in BOOLEAN : getAllStreamers(p, ok)
  \/ \E p \in Tasks, ok \in BOOLEAN : getLastSeen(p, ok)
  \/ \E p \in Tasks, ok, incl \in BOOLEAN : checkStreamerTips(p, ok, incl)
  \/ \E p \in Tasks, res \in {"ok", "null", "throw"} : processTransaction(p, res)
  \/ \E p \in Tasks, ok \in BOOLEAN : updateLastSeen(p, ok)

SpecSerial == Init /\ [][NextSerial]_vars

\* one poll chain over transactions that carry instructions; the storage
\* reads resolve, the cursor write resolves or rejects
NextMemo ==
  \/ \E id \in FirstIds, a \in Addrs, m \in FirstMessages : registerStreamer(id, a, m)
  \/ \E a \in Addrs, d \in TxDeltas : Arrive(a, d)
  \/ \E p \in Tasks : startSerial(p)
  \/ \E p \in Tasks : poll(p)
  \/ \E p \in Tasks : getAllStreamers(p, TRUE)
  \/ \E p \in Tasks : getLastSeen(p, TRUE)
  \/ \E p \in Tasks, incl \in BOOLEAN : checkStreamerTips(p, TRUE, incl)
  \/ \E p \in Tasks, res \in {"null", "throw"} : memoProcessTransaction(p, res, <<>>)
  \/ \E p \in Tasks, instructions \in InstructionLists :
       memoProcessTransaction(p, "ok", instructions)
  \/ \E p \in Tasks, ok \in BOOLEAN : updateLastSeen(p, ok)

SpecMemo == Init /\ [][NextMemo]_vars

\* one poll chain over two recipients bound to the same address, the
\* streamerId of every tipData observed
NextShared ==
  \/ \E id \in Ids, a \in Addrs, m \in FirstMessages : registerStreamer(id, a, m)
  \/ \E a \in Addrs, d \in TxDeltas : Arrive(a, d)
  \/ \E p \in Tasks : startSerial(p)
  \/ \E p \in Tasks : poll(p)
  \/ \E p \in Tasks, ok \in BOOLEAN : getAllStreamers(p, ok)
  \/ \E p \in Tasks, ok \in BOOLEAN : getLastSeen(p, ok)
  \/ \E p \in Tasks, ok, incl \in BOOLEAN : checkStreamerTips(p, ok, incl)
  \/ \E p \in Tasks, res \in {"ok", "null", "throw"} : memoProcessTransaction(p, res, <<>>)
  \/ \E p \in Tasks, ok \in BOOLEAN : updateLastSeen(p, ok)

SpecShared == Init /\ [][NextShared]_vars

\* ------------------------------------------------------- event handlers
RECURSIVE InvokeHandlers_noCatch(_, _)
RECURSIVE InvokeHandlers(_, _)

\* handlers.forEach with the handler called outside a try/catch: the first
\* handler that throws ends the loop and the exception leaves emit
InvokeHandlers_noCatch(handlers, bad) ==
  IF handlers = <<>>
  THEN [calls |-> <<>>, propagated |-> FALSE]
  ELSE IF Head(handlers) \in bad
       THEN [calls |-> <<Head(handlers)>>, propagated |-> TRUE]
       ELSE LET rest == InvokeHandlers_noCatch(Tail(handlers), bad)
            IN  [calls |-> <<Head(handlers)>> \o rest.calls, propagated |-> rest.propagated]

\* emit, lines 182-188: handlers.forEach calls each handler inside its own
\* try/catch; the exception of a handler in `bad` is logged and the loop goes on
InvokeHandlers(handlers, bad) ==
  IF handlers = <<>>
  THEN [calls |-> <<>>, propagated |-> FALSE]
  ELSE LET rest == InvokeHandlers(Tail(handlers), bad)
       IN  [calls |-> <<Head(handlers)>> \o rest.calls, propagated |-> rest.propagated]

\* TipIndexer.on('tip', handler)
on(h) ==
  /\ Len(eventHandlers) < MaxHandlers
  /\ eventHandlers' = Append(eventHandlers, h)
  /\ UNCHANGED <<cvars, dvars, mvars, lastEmit, wsvars, rvars, pvars, signatureLimit, polling, pollTimer, streamers, lastSeen,
                 ledger, task, emitted, processed>>

\* TipIndexer.emit('tip', data); the handlers in `bad` throw on this event
emitTip(bad) ==
  /\ LET r == InvokeHandlers(eventHandlers, bad)
     IN  lastEmit' = [handlers |-> eventHandlers, bad |-> bad,
                      calls |-> r.calls, propagated |-> r.propagated]
  /\ UNCHANGED <<cvars, dvars, mvars, eventHandlers, wsvars, rvars, pvars, signatureLimit, polling, pollTimer, streamers,
                 lastSeen, ledger, task, emitted, processed>>

NextEmit ==
  \/ \E h \in Handlers : on(h)
  \/ \E bad \in SUBSET Range(eventHandlers) : emitTip(bad)

SpecEmit == Init /\ [][NextEmit]_vars

\* ----------------------------------------------------------------- parser
\* Array.prototype.indexOf: the first position of x, 0 (-1 in the source,
\* whose arrays start at 0) when there is none
IndexOf(seq, x) ==
  IF \E i \in DOMAIN seq : seq[i] = x
  THEN CHOOSE i \in DOMAIN seq : seq[i] = x /\ \A j \in 1..(i - 1) : seq[j] # x
  ELSE 0

\* the loop of lines 76-81 from position i on
RECURSIVE SenderFrom(_, _, _)
SenderFrom(transaction, targetIndex, i) ==
  IF i > Len(transaction.accountKeys)
  THEN "unknown"
  ELSE IF transaction.preBalances[i] > transaction.postBalances[i] /\ i # targetIndex
  THEN transaction.accountKeys[i]
  ELSE SenderFrom(transaction, targetIndex, i + 1)

\* the loop without its break: the last account that matches wins
FindSender_noBreak(transaction, targetIndex) ==
  LET dec == {i \in DOMAIN transaction.accountKeys :
                transaction.preBalances[i] > transaction.postBalances[i] /\ i # targetIndex}
  IN  IF dec = {}
      THEN "unknown"
      ELSE transaction.accountKeys[CHOOSE i \in dec : \A j \in dec : j <= i]

\* parseTipTransaction, lines 75-81: the sender
FindSender(transaction, targetIndex) == SenderFrom(transaction, targetIndex, 1)

\* a parse that lets a balance change of zero through
parseTip_zeroIsTip(transaction, targetPubkey) ==
  IF ~transaction.meta
  THEN Null
  ELSE LET targetIndex == IndexOf(transaction.accountKeys, targetPubkey)
       IN  IF targetIndex = 0
           THEN Null
           ELSE LET balanceChange == transaction.postBalances[targetIndex]
                                       - transaction.preBalances[targetIndex]
                IN  IF balanceChange < 0
                    THEN Null
                    ELSE [kind |-> "event",
                          from |-> FindSender(transaction, targetIndex),
                          amountLamports |-> balanceChange]

\* parseTipTransaction(transaction, targetPubkey), lines 51-91, in full (the
\* poll cycle above uses its outcome only)
parseTip(transaction, targetPubkey) ==
  IF ~transaction.meta
  THEN Null
  ELSE LET targetIndex == IndexOf(transaction.accountKeys, targetPubkey)
       IN  IF targetIndex = 0
           THEN Null
           ELSE LET balanceChange == transaction.postBalances[targetIndex]
                                       - transaction.preBalances[targetIndex]
                IN  IF balanceChange <= 0
                    THEN Null
                    ELSE [kind |-> "event",
                          from |-> FindSender(transaction, targetIndex),
                          amountLamports |-> balanceChange]

\* a call of parseTipTransaction returns
parse ==
  /\ parsed.result = Pending
  /\ parsed.targetPubkey # ""
  /\ parsed' = [parsed EXCEPT !.result = parseTip(parsed.transaction, parsed.targetPubkey)]
  /\ UNCHANGED <<cvars, dvars, mvars, hvars, wsvars, rvars, signatureLimit, polling, pollTimer, streamers,
                 lastSeen, ledger, task, emitted, processed>>

\* parseTipTransaction about to be called with any transaction and target
InitParse ==
  /\ InitBase
  /\ signatureLimit = 1
  /\ parsed \in [transaction : Transactions, targetPubkey : Accounts, result : {Pending}]

NextParse == parse

SpecParse == InitParse /\ [][NextParse]_vars

\* --------------------------------------------------------------- registry
\* a verifySignature whose catch accepts
verifySignature_catchAccepts(message, signature, pubkey) ==
  IF signature.enc = "bad58" \/ pubkey = "notBase58"
  THEN TRUE
  ELSE IF signature.enc # "ok" \/ pubkey \notin Pubkeys
  THEN TRUE
  ELSE signature.msg = message /\ signature.key = pubkey

\* verifySignature, lines 15-26: bs58.decode throws on data that is not
\* base58, nacl.sign.detached.verify throws on a signature that is not 64 or
\* a key that is not 32 bytes long; the catch of line 22 returns false
verifySignature(message, signature, pubkey) ==
  IF signature.enc = "bad58" \/ pubkey = "notBase58"
  THEN FALSE
  ELSE IF signature.enc # "ok" \/ pubkey \notin Pubkeys
  THEN FALSE
  ELSE signature.msg = message /\ signature.key = pubkey

\* a gate under which a proof is used up by the binding it made
Accepts_singleUse(streamerId, pubkey, message, signature) ==
  /\ ~(streamerId = "" \/ pubkey = "" \/ message = "" \/ signature = NoSig)
  /\ verifySignature(message, signature, pubkey)
  /\ \A i \in 1..Len(streamers) :
       ~(streamers[i].pubkey = pubkey /\ streamers[i].message = message)

\* the two tests a call passes before register reaches the storage, lines
\* 24-33: all four fields present and verifySignature(message, signature,
\* pubkey) true; streamerId is tested for presence only
Accepts(streamerId, pubkey, message, signature) ==
  /\ ~(streamerId = "" \/ pubkey = "" \/ message = "" \/ signature = NoSig)
  /\ verifySignature(message, signature, pubkey)

\* a register without the try/catch around the storage call
register_noCatch(streamerId, pubkey, message, signature, ok) ==
  LET missing == streamerId = "" \/ pubkey = "" \/ message = "" \/ signature = NoSig
      isValid == verifySignature(message, signature, pubkey)
      stores == Accepts(streamerId, pubkey, message, signature)
  IN  /\ stores \/ ok
      /\ streamers' = IF stores /\ ok
                      THEN SetStreamer(streamers, streamerId, pubkey, message)
                      ELSE streamers
      /\ reg' = [k |-> 1 - reg.k, streamerId |-> streamerId, pubkey |-> pubkey,
                 message |-> message, signature |-> signature,
                 storage |-> IF ~stores THEN "none" ELSE IF ok THEN "resolved" ELSE "rejected",
                 attempts |-> IF stores THEN 1 ELSE 0,
                 result |-> IF missing THEN "Missing required fields"
                            ELSE IF ~isValid THEN "Invalid signature"
                            ELSE IF ok THEN "success" ELSE "none",
                 threw |-> stores /\ ~ok,
                 rebound |-> LET prev == getStreamer(streamers, streamerId)
                             IN  /\ prev # NoBinding
                                 /\ prev.pubkey # pubkey /\ prev.message # message]
      /\ UNCHANGED <<cvars, dvars, mvars, hvars, wsvars, pvars, signatureLimit, polling, pollTimer, lastSeen,
                     ledger, task, emitted, processed>>

\* StreamerRegistry.register, lines 23-44; ok: storage.registerStreamer
\* resolves (an input of the calls that reach the storage only)
register(streamerId, pubkey, message, signature, ok) ==
  LET missing == streamerId = "" \/ pubkey = "" \/ message = "" \/ signature = NoSig
      isValid == verifySignature(message, signature, pubkey)
      stores == Accepts(streamerId, pubkey, message, signature)
  IN  /\ stores \/ ok
      /\ streamers' = IF stores /\ ok
                      THEN SetStreamer(streamers, streamerId, pubkey, message)
                      ELSE streamers
      /\ reg' = [k |-> 1 - reg.k, streamerId |-> streamerId, pubkey |-> pubkey,
                 message |-> message, signature |-> signature,
                 storage |-> IF ~stores THEN "none" ELSE IF ok THEN "resolved" ELSE "rejected",
                 attempts |-> IF stores THEN 1 ELSE 0,
                 result |-> IF missing THEN "Missing required fields"
                            ELSE IF ~isValid THEN "Invalid signature"
                            ELSE IF ok THEN "success" ELSE "Storage error",
                 threw |-> FALSE,
                 rebound |-> LET prev == getStreamer(streamers, streamerId)
                             IN  /\ prev # NoBinding
                                 /\ prev.pubkey # pubkey /\ prev.message # message]
      /\ UNCHANGED <<cvars, dvars, mvars, hvars, wsvars, pvars, signatureLimit, polling, pollTimer, lastSeen,
                     ledger, task, emitted, processed>>

\* ---------------------------------------------------------- LowdbAdapter
\* the arguments a method is called with: a recipientId (bound to addrX) or
\* a signature of addrX; getLastSeen is asked for addrX
DbArgs(c) ==
  IF c \in {"registerStreamer", "getStreamer"} THEN Ids
  ELSE IF c = "updateLastSeen" THEN Sigs
  ELSE {"addrX"}

\* a method of the adapter is called: it runs up to `await this.db.read()`,
\* lines 28, 38, 48, 54
dbCallMethod(c, arg) ==
  /\ dbCall[c].pc = "idle"
  /\ dbCall' = [dbCall EXCEPT ![c] = [NoCall EXCEPT !.pc = "reading", !.arg = arg,
                                                    !.after = \A w \in DbWriters :
                                                                dbCall[w].pc = "done"]]
  /\ UNCHANGED <<dbFile, dbData, dbWrites>>
  /\ UNCHANGED <<cvars, hvars, wsvars, rvars, pvars, mvars, signatureLimit, polling, pollTimer,
                 streamers, lastSeen, ledger, task, emitted, processed>>

\* db.read() of call c reads and parses the file (JSONFile.read)
dbReadFile(c) ==
  /\ dbCall[c].pc = "reading"
  /\ dbCall' = [dbCall EXCEPT ![c].pc = "read", ![c].buf = dbFile]
  /\ UNCHANGED <<dbFile, dbData, dbWrites>>
  /\ UNCHANGED <<cvars, hvars, wsvars, rvars, pvars, mvars, signatureLimit, polling, pollTimer,
                 streamers, lastSeen, ledger, task, emitted, processed>>

\* what a writer assigns into db.data, lines 29-33 and 49
Mutate(c, arg, data) ==
  IF c = "registerStreamer"
  THEN [data EXCEPT !.streamers = @ \cup {arg}]
  ELSE [data EXCEPT !.lastSeen = arg]

\* call c resumes after `await this.db.read()`: read() has replaced db.data
\* by what it parsed; a writer assigns into db.data and calls db.write(),
\* which serialises db.data and hands the text to the file writer (lines
\* 29-34, 49-50); a reader returns from db.data (lines 39, 55)
dbResume(c) ==
  /\ dbCall[c].pc = "read"
  /\ IF c \in DbWriters
     THEN LET data == Mutate(c, dbCall[c].arg, dbCall[c].buf)
          IN  /\ dbData' = data
              /\ dbWrites' = Append(dbWrites, [call |-> c, text |-> data])
              /\ dbCall' = [dbCall EXCEPT ![c].pc = "writing"]
     ELSE /\ dbData' = dbCall[c].buf
          /\ dbCall' = [dbCall EXCEPT ![c].pc = "done",
                                      ![c].result = IF c = "getStreamer"
                                                    THEN IF dbCall[c].arg \in dbCall[c].buf.streamers
                                                         THEN "addrX" ELSE "null"
                                                    ELSE dbCall[c].buf.lastSeen]
          /\ UNCHANGED dbWrites
  /\ UNCHANGED dbFile
  /\ UNCHANGED <<cvars, hvars, wsvars, rvars, pvars, mvars, signatureLimit, polling, pollTimer,
                 streamers, lastSeen, ledger, task, emitted, processed>>

\* the file writer writes the oldest text handed to it; the db.write() that
\* handed it over resolves and its method returns
dbWriteFile ==
  /\ dbWrites # <<>>
  /\ dbFile' = Head(dbWrites).text
  /\ dbWrites' = Tail(dbWrites)
  /\ dbCall' = [dbCall EXCEPT ![Head(dbWrites).call].pc = "done"]
  /\ UNCHANGED dbData
  /\ UNCHANGED <<cvars, hvars, wsvars, rvars, pvars, mvars, signatureLimit, polling, pollTimer,
                 streamers, lastSeen, ledger, task, emitted, processed>>

\* the HTTP handlers and the poll loop call the adapter, each method once
NextDb ==
  \/ \E c \in DbCalls : \E arg \in DbArgs(c) : dbCallMethod(c, arg)
  \/ \E c \in DbCalls : dbReadFile(c)
  \/ \E c \in DbCalls : dbResume(c)
  \/ dbWriteFile

SpecDb == InitWS /\ [][NextDb]_vars

\* --------------------------------------------------------- OverlayClient
\* everything but the client is left alone
ClientOnly ==
  UNCHANGED <<hvars, wsvars, rvars, pvars, mvars, dvars, signatureLimit, polling, pollTimer,
              streamers, lastSeen, ledger, task, emitted, processed>>

\* a client step of type t about socket i
Step(t, i) == [NoStep EXCEPT !.k = 1 - cev.k, !.type = t, !.socket = i]

\* connect(), lines 142-184: a new WebSocket, CONNECTING, replaces this.ws;
\* its four handlers are attached to the socket, not to this.ws
Connect(i, t) ==
  /\ sock[i] = CLOSED
  /\ \A j \in 1..(i - 1) : sock[j] # CLOSED
  /\ sock' = [sock EXCEPT ![i] = CONNECTING]
  /\ ws' = i
  /\ cev' = Step(t, i)

\* the application calls connect() on a client it has not connected, or has
\* disconnected
connect(i) ==
  /\ wanted # "connect"
  /\ Connect(i, "connect")
  /\ wanted' = "connect"
  /\ UNCHANGED <<reconnectAttempts, connected, pingInterval, heartbeats, timeouts, delay>>
  /\ ClientOnly

\* a timer of reconnect() fires, lines 258-260: connect()
reconnectTimer(i) ==
  /\ timeouts > 0
  /\ timeouts' = timeouts - 1
  /\ Connect(i, "timer")
  /\ UNCHANGED <<reconnectAttempts, connected, pingInterval, heartbeats, wanted, delay>>
  /\ ClientOnly

\* the condition of subscribe() and of the heartbeat callback, lines 214 and
\* 227: this.ws is set and OPEN (as it is after the step: the handler of
\* socket i runs when i has become OPEN)
CanSend(i) == ws # 0 /\ (IF ws = i THEN TRUE ELSE sock[ws] = OPEN)

\* onopen of socket i, lines 147-159: the counter is reset, subscribe() sends
\* on this.ws if that is OPEN, startHeartbeat() stores a new interval timer
\* over the old one, 'connected' is emitted
onopen(i) ==
  /\ sock[i] = CONNECTING
  /\ heartbeats < MaxSockets
  /\ sock' = [sock EXCEPT ![i] = OPEN]
  /\ connected' = TRUE
  /\ reconnectAttempts' = 0
  /\ pingInterval' = TRUE
  /\ heartbeats' = heartbeats + 1
  /\ cev' = [Step("open", i) EXCEPT !.events = <<"connected">>,
                                    !.subscribe = IF CanSend(i) THEN ws ELSE 0,
                                    !.state = IF CanSend(i) THEN OPEN ELSE CLOSED]
  /\ UNCHANGED <<ws, timeouts, wanted, delay>>
  /\ ClientOnly

\* the backoff of reconnect(), line 254, before attempt n
Delay_constant(n) == reconnectDelay

Delay(n) == reconnectDelay * n

\* the ceiling of reconnect(), line 247
AtCeiling_never(n) == FALSE

AtCeiling(n) == n >= maxReconnectAttempts

\* onclose of socket i, lines 170-178 (the server or the network closes it,
\* the connection fails, or a close() of the client completes):
\* stopHeartbeat() clears the stored interval timer, 'disconnected' is
\* emitted, and reconnect(), lines 246-261, gives up at the ceiling or counts
\* the attempt and sets a timer for connect()
onclose(i) ==
  /\ sock[i] # CLOSED
  /\ AtCeiling(reconnectAttempts) \/ timeouts < MaxSockets
  /\ sock' = [sock EXCEPT ![i] = CLOSED]
  /\ connected' = FALSE
  /\ pingInterval' = FALSE
  /\ heartbeats' = IF pingInterval THEN heartbeats - 1 ELSE heartbeats
  /\ IF AtCeiling(reconnectAttempts)
     THEN /\ cev' = [Step("close", i) EXCEPT !.events = <<"disconnected", "maxReconnectReached">>]
          /\ UNCHANGED <<reconnectAttempts, timeouts, delay>>
     ELSE /\ reconnectAttempts' = reconnectAttempts + 1
          /\ delay' = Delay(reconnectAttempts + 1)
          /\ timeouts' = timeouts + 1
          /\ cev' = [Step("close", i) EXCEPT !.events = <<"disconnected">>]
  /\ UNCHANGED <<ws, wanted>>
  /\ ClientOnly

\* a timer of startHeartbeat fires, lines 226-230: a ping on this.ws if it
\* is OPEN
heartbeatTimer ==
  /\ heartbeats > 0
  /\ cev' = [Step("heartbeat", 0) EXCEPT
               !.ping = IF ws # 0 /\ sock[ws] = OPEN THEN ws ELSE 0,
               !.state = IF ws # 0 THEN sock[ws] ELSE CLOSED]
  /\ UNCHANGED <<ws, sock, reconnectAttempts, connected, pingInterval, heartbeats, timeouts,
                 wanted, delay>>
  /\ ClientOnly

\* disconnect(), lines 266-273: stopHeartbeat(), close() of this.ws (its
\* handlers stay attached; the close event comes later), this.ws = null
disconnect ==
  /\ wanted = "connect"
  /\ wanted' = IF connected THEN "disconnect" ELSE "abandon"
  /\ pingInterval' = FALSE
  /\ heartbeats' = IF pingInterval THEN heartbeats - 1 ELSE heartbeats
  /\ sock' = IF ws # 0 /\ sock[ws] # CLOSED THEN [sock EXCEPT ![ws] = CLOSING] ELSE sock
  /\ ws' = 0
  /\ connected' = FALSE
  /\ cev' = Step("disconnect", ws)
  /\ UNCHANGED <<reconnectAttempts, timeouts, delay>>
  /\ ClientOnly

\* one overlay client, its sockets opened and closed by the server and the
\* network, connected and disconnected by the application
NextClient ==
  \/ \E i \in Sockets : connect(i)
  \/ \E i \in Sockets : reconnectTimer(i)
  \/ \E i \in Sockets : onopen(i)
  \/ \E i \in Sockets : onclose(i)
  \/ heartbeatTimer
  \/ disconnect

SpecClient == InitWS /\ [][NextClient]_vars

\* ------------------------------------------------------------ broadcaster
\* inbound messages: a subscribe with or without a streamer, a ping, a
\* message of another type, and data that JSON.parse rejects
Msgs == [kind : {"subscribe"}, streamer : Ids \cup {""}]
          \cup [kind : {"ping", "bogus", "malformed"}, streamer : {""}]

\* an array in place of the Set: push appends whatever the array holds
SetAdd_push(set, x) == Append(set, x)

\* Set.prototype.add (handleMessage, line 76)
SetAdd(set, x) == IF x \in Range(set) THEN set ELSE Append(set, x)

\* shouldBroadcast without the filter: no entry ever leaves the window
Prune_keepsAll(counts, t) == counts

\* shouldBroadcast, line 142: counts.filter(entry => now - entry < windowMs)
Prune(counts, t) == SelectSeq(counts, LAMBDA entry : t - entry < AlertWindowMs)

\* the budget test with > in place of >=
OverBudget_offByOne(filtered) == Len(filtered) > MaxAlertsPerWindow

\* shouldBroadcast, line 144
OverBudget(filtered) == Len(filtered) >= MaxAlertsPerWindow

\* shouldBroadcast that records the timestamp before the budget test
shouldBroadcast_recordsDrop(id) ==
  LET filtered == Prune(alertCounts[id], now)
  IN  [ok |-> ~OverBudget(filtered), counts |-> Append(filtered, now)]

\* shouldBroadcast, lines 131-151: the return value and the array that
\* alertCounts holds for the recipient afterwards
shouldBroadcast(id) ==
  LET filtered == Prune(alertCounts[id], now)
  IN  IF OverBudget(filtered)
      THEN [ok |-> FALSE, counts |-> alertCounts[id]]
      ELSE [ok |-> TRUE, counts |-> Append(filtered, now)]

\* the fan-out test without the subscription check
Subscribed_any(c, id) == TRUE

\* broadcastTip, lines 118-119: subs && subs.has(streamerId)
Subscribed(c, id) == id \in Range(subscriptions[c])

\* the fan-out test without the readyState check
IsOpen_any(c) == TRUE

\* broadcastTip, line 119: ws.readyState === 1
IsOpen(c) == readyState[c] = OPEN

RECURSIVE FanOut_sendThrows(_, _, _)
RECURSIVE FanOut(_, _, _)

\* a fan-out in which a failed socket write makes ws.send throw: the
\* exception ends the forEach and leaves broadcastTip
FanOut_sendThrows(cs, id, bad) ==
  IF cs = <<>>
  THEN [sent |-> <<>>, threw |-> FALSE]
  ELSE IF Subscribed(Head(cs), id) /\ IsOpen(Head(cs))
       THEN IF Head(cs) \in bad
            THEN [sent |-> <<Head(cs)>>, threw |-> TRUE]
            ELSE LET rest == FanOut_sendThrows(Tail(cs), id, bad)
                 IN  [sent |-> <<Head(cs)>> \o rest.sent, threw |-> rest.threw]
       ELSE FanOut_sendThrows(Tail(cs), id, bad)

\* broadcastTip, lines 117-123: wss.clients.forEach; ws.send(message) on an
\* open socket hands the frame to the socket and returns, a write that fails
\* (the connections in `bad`) is reported later by the 'error' event of that
\* connection (lines 47-49)
FanOut(cs, id, bad) ==
  IF cs = <<>>
  THEN [sent |-> <<>>, threw |-> FALSE]
  ELSE LET rest == FanOut(Tail(cs), id, bad)
       IN  IF Subscribed(Head(cs), id) /\ IsOpen(Head(cs))
           THEN [sent |-> <<Head(cs)>> \o rest.sent, threw |-> rest.threw]
           ELSE rest

\* WebSocketBroadcaster.init
init ==
  /\ ~wss
  /\ wss' = TRUE
  /\ UNCHANGED <<cvars, dvars, mvars, hvars, rvars, pvars, wshist, clients, readyState, isAlive, subscriptions, resubscribed, closedSubs, alertCounts,
                 now, accepted, pub, signatureLimit, polling, pollTimer, streamers, lastSeen,
                 ledger, task, emitted, processed>>

\* the 'connection' handler, lines 27-50
connection(c) ==
  /\ wss
  /\ readyState[c] = 0
  /\ c = ConnOrder[Cardinality({d \in Conns : readyState[d] # 0}) + 1]
  /\ clients' = Append(clients, c)
  /\ readyState' = [readyState EXCEPT ![c] = OPEN]
  /\ isAlive' = [isAlive EXCEPT ![c] = TRUE]
  /\ UNCHANGED <<cvars, dvars, mvars, hvars, rvars, pvars, wshist, wss, subscriptions, resubscribed, closedSubs, alertCounts, now, accepted, pub,
                 signatureLimit, polling, pollTimer, streamers, lastSeen, ledger, task,
                 emitted, processed>>

\* an inbound message the handlers do not act on: data on which JSON.parse
\* or the read of msg.action throws (caught at line 37), a type the switch
\* does not know (line 89), a subscribe without a streamer (line 72)
Unhandled(msg) ==
  \/ msg.kind \in {"malformed", "bogus"}
  \/ msg.kind = "subscribe" /\ msg.streamer = ""

\* the 'subscribe' case without the test of msg.streamer
IsSubscribe_noStreamerCheck(msg) == msg.kind = "subscribe"

\* handleMessage, lines 70-72: the 'subscribe' case with a streamer
IsSubscribe(msg) == msg.kind = "subscribe" /\ msg.streamer # ""

\* a table that holds one recipient for each connection
Subscribe_singleValue(c, streamer) ==
  subscriptions' = [subscriptions EXCEPT ![c] = <<streamer>>]

\* handleMessage, lines 73-76: the Set of the connection gains the recipient
Subscribe(c, streamer) ==
  subscriptions' = [subscriptions EXCEPT ![c] = SetAdd(@, streamer)]

\* the 'message' handler, lines 33-40, and handleMessage
handleMessage(c, msg) ==
  /\ readyState[c] \in {OPEN, 2}
  /\ IF IsSubscribe(msg)
     THEN /\ Subscribe(c, msg.streamer)
          /\ resubscribed' = IF msg.streamer \in Range(subscriptions[c])
                             THEN resubscribed \cup {c}
                             ELSE resubscribed
     ELSE UNCHANGED <<subscriptions, resubscribed>>
  /\ everSubscribed' = IF msg.kind = "subscribe" /\ msg.streamer \in Ids
                       THEN [everSubscribed EXCEPT ![c] = @ \cup {msg.streamer}]
                       ELSE everSubscribed
  /\ ignored' = IF Unhandled(msg)
                THEN [k |-> 1 - ignored.k, c |-> c, subs |-> Len(subscriptions[c])]
                ELSE ignored
  /\ UNCHANGED <<cvars, dvars, mvars, hvars, rvars, pvars, awaiting, terminated, wss, clients, readyState,
                 isAlive, closedSubs, alertCounts, now, accepted, pub,
                 signatureLimit, polling, pollTimer, streamers, lastSeen, ledger, task,
                 emitted, processed>>

\* the transport begins to close the connection: a close frame of the peer
\* or a socket error (the 'error' handler, lines 47-49, logs it)
closing(c) ==
  /\ readyState[c] = OPEN
  /\ readyState' = [readyState EXCEPT ![c] = 2]
  /\ UNCHANGED <<cvars, dvars, mvars, hvars, rvars, pvars, wshist, wss, clients, isAlive, subscriptions, resubscribed, closedSubs, alertCounts, now,
                 accepted, pub, signatureLimit, polling, pollTimer, streamers, lastSeen,
                 ledger, task, emitted, processed>>

\* a 'close' handler that leaves the entry of the connection in the table
onClose_keepsSubscriptions(c) ==
  /\ readyState[c] \in {OPEN, 2}
  /\ readyState' = [readyState EXCEPT ![c] = 3]
  /\ clients' = SelectSeq(clients, LAMBDA d : d # c)
  /\ isAlive' = [isAlive EXCEPT ![c] = FALSE]
  /\ closedSubs' = [closedSubs EXCEPT ![c] = Range(subscriptions[c])]
  /\ everSubscribed' = [everSubscribed EXCEPT ![c] = {}]
  /\ awaiting' = [awaiting EXCEPT ![c] = FALSE]
  /\ terminated' = terminated \ {c}
  /\ UNCHANGED <<cvars, dvars, mvars, hvars, rvars, pvars, ignored, wss, subscriptions, resubscribed, alertCounts, now, accepted, pub,
                 signatureLimit, polling, pollTimer, streamers, lastSeen, ledger, task,
                 emitted, processed>>

\* the 'close' event: the server drops the connection from wss.clients and
\* the handler, lines 42-45, deletes its entry of the subscription table
onClose(c) ==
  /\ readyState[c] \in {OPEN, 2}
  /\ readyState' = [readyState EXCEPT ![c] = 3]
  /\ clients' = SelectSeq(clients, LAMBDA d : d # c)
  /\ isAlive' = [isAlive EXCEPT ![c] = FALSE]
  /\ subscriptions' = [subscriptions EXCEPT ![c] = <<>>]
  /\ resubscribed' = resubscribed \ {c}
  /\ closedSubs' = [closedSubs EXCEPT ![c] = Range(subscriptions[c])]
  /\ everSubscribed' = [everSubscribed EXCEPT ![c] = {}]
  /\ awaiting' = [awaiting EXCEPT ![c] = FALSE]
  /\ terminated' = terminated \ {c}
  /\ UNCHANGED <<cvars, dvars, mvars, hvars, rvars, pvars, ignored, wss, alertCounts, now, accepted, pub, signatureLimit, polling,
                 pollTimer, streamers, lastSeen, ledger, task, emitted, processed>>

\* the 'pong' handler, line 31
pong(c) ==
  /\ readyState[c] = OPEN
  /\ isAlive' = [isAlive EXCEPT ![c] = TRUE]
  /\ awaiting' = [awaiting EXCEPT ![c] = FALSE]
  /\ UNCHANGED <<cvars, dvars, mvars, hvars, rvars, pvars, everSubscribed, ignored, terminated, wss, clients, readyState, subscriptions, resubscribed, closedSubs, alertCounts, now,
                 accepted, pub, signatureLimit, polling, pollTimer, streamers, lastSeen,
                 ledger, task, emitted, processed>>

\* a heartbeat that never clears isAlive: every connection is pinged, none is
\* ever found silent
heartbeat_neverMarks ==
  /\ wss
  /\ awaiting' = [c \in Conns |-> IF c \in Range(clients) THEN TRUE ELSE awaiting[c]]
  /\ UNCHANGED <<cvars, dvars, mvars, hvars, rvars, pvars, everSubscribed, ignored, terminated, readyState, isAlive,
                 wss, clients, subscriptions, resubscribed, closedSubs, alertCounts, now,
                 accepted, pub, signatureLimit, polling, pollTimer, streamers, lastSeen,
                 ledger, task, emitted, processed>>

\* the heartbeat, lines 53-61: a connection whose isAlive is false is
\* terminated, the others are marked and pinged
heartbeat ==
  /\ wss
  /\ readyState' = [c \in Conns |->
                      IF c \in Range(clients) /\ ~isAlive[c] /\ readyState[c] = OPEN
                      THEN 2 ELSE readyState[c]]
  /\ isAlive' = [c \in Conns |-> IF c \in Range(clients) THEN FALSE ELSE isAlive[c]]
  /\ terminated' = terminated \cup {c \in Range(clients) : ~isAlive[c]}
  /\ awaiting' = [c \in Conns |->
                    IF c \in Range(clients) /\ isAlive[c] THEN TRUE ELSE awaiting[c]]
  /\ UNCHANGED <<cvars, dvars, mvars, hvars, rvars, pvars, everSubscribed, ignored, wss, clients, subscriptions,
                 resubscribed, closedSubs, alertCounts, now, accepted, pub, signatureLimit,
                 polling, pollTimer, streamers, lastSeen, ledger, task, emitted, processed>>

\* the clock advances
Tick ==
  /\ now < MaxTime
  /\ now' = now + 1
  /\ UNCHANGED <<cvars, dvars, mvars, hvars, rvars, pvars, wshist, wss, clients, readyState, isAlive, subscriptions, resubscribed, closedSubs,
                 alertCounts, accepted, pub, signatureLimit, polling, pollTimer, streamers,
                 lastSeen, ledger, task, emitted, processed>>

\* broadcastTip(streamerId, tipData), lines 99-126; this.wss.clients throws a
\* TypeError while wss is null
Publish(id, bad) ==
  /\ LET r == shouldBroadcast(id)
         f == FanOut(clients, id, bad)
         targets == {c \in Range(clients) : readyState[c] = OPEN /\ id \in Range(subscriptions[c])}
     IN  /\ alertCounts' = [alertCounts EXCEPT ![id] = r.counts]
         /\ accepted' = IF r.ok THEN [accepted EXCEPT ![id] = Append(@, now)] ELSE accepted
         /\ pub' = IF ~r.ok
                   THEN [NoPub EXCEPT !.k = 1 - pub.k, !.id = id, !.result = "dropped",
                                      !.targets = targets]
                   ELSE IF ~wss
                   THEN [NoPub EXCEPT !.k = 1 - pub.k, !.id = id, !.result = "threw"]
                   ELSE [k |-> 1 - pub.k, id |-> id,
                         result |-> IF f.threw THEN "threw" ELSE "done",
                         sent |-> f.sent, failed |-> bad \cap Range(f.sent),
                         targets |-> targets,
                         others |-> {c \in Range(clients) :
                                       /\ readyState[c] = OPEN
                                       /\ subscriptions[c] # <<>>
                                       /\ id \notin Range(subscriptions[c])},
                         resub |-> resubscribed,
                         closing |-> {c \in Conns : readyState[c] = 2 /\ Subscribed(c, id)},
                         closed |-> {c \in Conns : readyState[c] = 3 /\ id \in closedSubs[c]}]
  /\ UNCHANGED <<wshist, wss, clients, readyState, isAlive, subscriptions, resubscribed,
                 closedSubs, now>>

\* broadcastTip called by the application
broadcastTip(id, bad) ==
  /\ Publish(id, bad)
  /\ UNCHANGED <<cvars, dvars, mvars, hvars, rvars, pvars, signatureLimit, polling, pollTimer, streamers, lastSeen,
                 ledger, task, emitted, processed>>

\* the subscribe messages that name a recipient
LiveMsgs == {m \in Msgs : m.kind = "subscribe" /\ m.streamer # ""}

\* connections, subscriptions and publishes at one instant of the clock
NextWS ==
  \/ init
  \/ \E c \in Conns : connection(c)
  \/ \E c \in Conns, msg \in LiveMsgs : handleMessage(c, msg)
  \/ \E c \in Conns : closing(c)
  \/ \E c \in Conns : onClose(c)
  \/ \E id \in Ids, bad \in SUBSET Range(clients) : broadcastTip(id, bad)

SpecWS == InitWS /\ [][NextWS]_vars

\* the heartbeat among connections, subscriptions and publishes whose socket
\* writes succeed
NextLive ==
  \/ init
  \/ \E c \in Conns : connection(c)
  \/ \E c \in Conns, msg \in LiveMsgs : handleMessage(c, msg)
  \/ \E c \in Conns : closing(c)
  \/ \E c \in Conns : onClose(c)
  \/ \E c \in Conns : pong(c)
  \/ heartbeat
  \/ \E id \in FirstIds : broadcastTip(id, {})

SpecLive == InitWS /\ [][NextLive]_vars

\* the limiter over time, with one connection
RateConns == {"c1"}
RateMsgs == {m \in Msgs : m.streamer = "alice"}

NextRate ==
  \/ init
  \/ \E c \in RateConns : connection(c)
  \/ \E c \in RateConns, msg \in RateMsgs : handleMessage(c, msg)
  \/ Tick
  \/ \E id \in Ids, bad \in SUBSET (RateConns \cap Range(clients)) : broadcastTip(id, bad)

SpecRate == InitWS /\ [][NextRate]_vars

\* subscriptions and publishes with every kind of inbound message
NextSub ==
  \/ init
  \/ \E c \in Conns : connection(c)
  \/ \E c \in Conns, msg \in Msgs : handleMessage(c, msg)
  \/ \E c \in Conns : onClose(c)
  \/ \E id \in FirstIds : broadcastTip(id, {})

SpecSub == InitWS /\ [][NextSub]_vars

\* the heartbeat and the pongs of connections that subscribe
NextBeat ==
  \/ init
  \/ \E c \in Conns : connection(c)
  \/ \E c \in Conns, msg \in RateMsgs : handleMessage(c, msg)
  \/ \E c \in Conns : pong(c)
  \/ heartbeat
  \/ \E c \in Conns : closing(c)
  \/ \E c \in Conns : onClose(c)

SpecBeat == InitWS /\ [][NextBeat]_vars

\* the registry alone, called with every combination of fields
NextReg ==
  \E streamerId \in Ids \cup {""}, pubkey \in PubkeyInputs, message \in Messages \cup {""},
     signature \in Signatures, ok \in BOOLEAN :
    register(streamerId, pubkey, message, signature, ok)

SpecReg == InitWS /\ [][NextReg]_vars

\* the registry called with well-formed requests only: every recipientId,
\* address and message, with a signature that is well encoded or not, and a
\* storage that resolves
NextProof ==
  \E streamerId \in Ids, pubkey \in Pubkeys, message \in Messages,
     signature \in Signatures \ {NoSig} :
    register(streamerId, pubkey, message, signature, TRUE)

SpecProof == InitWS /\ [][NextProof]_vars

\* ---------------------------------------------------------------- the SDK
\* processTransaction of the indexer of a SolanaTipSDK: the handler that the
\* constructor registers, lines 220-222, passes the tip to broadcastTip
\* inside emit (an exception of broadcastTip ends in the catch of emit)
sdkProcessTransaction(p, res) ==
  /\ ProcessTx(p, res, <<>>)
  /\ IF res = "ok" /\ parseTipTransaction(ledger[Head(task[p].todo).pubkey][Head(task[p].page)])
     THEN /\ Publish(Head(task[p].todo).id, {})
          /\ lost' = IF wss THEN lost
                     ELSE [lost EXCEPT ![Head(task[p].todo).pubkey] = @ \cup {Head(task[p].page)}]
     ELSE UNCHANGED <<wsvars, lost>>
  /\ UNCHANGED <<cvars, dvars, tipMemo, emittedFor, hvars, rvars, pvars>>

\* the SDK with the page size at its largest
InitSDK == Init /\ signatureLimit = MaxSignatureLimit

\* registry, indexer and broadcaster of one SDK: one recipient registers
\* with a valid proof, one connection subscribes to it, one poll chain runs
NextSDK ==
  \/ \E id \in FirstIds, a \in Addrs, m \in FirstMessages :
       register(id, a, m, [enc |-> "ok", msg |-> m, key |-> a], TRUE)
  \/ \E a \in Addrs, d \in TxDeltas : Arrive(a, d)
  \/ \E p \in Tasks : startSerial(p)
  \/ \E p \in Tasks : poll(p)
  \/ \E p \in Tasks, ok \in BOOLEAN : getAllStreamers(p, ok)
  \/ \E p \in Tasks, ok \in BOOLEAN : getLastSeen(p, ok)
  \/ \E p \in Tasks, ok, incl \in BOOLEAN : checkStreamerTips(p, ok, incl)
  \/ \E p \in Tasks, res \in {"ok", "null", "throw"} : sdkProcessTransaction(p, res)
  \/ \E p \in Tasks, ok \in BOOLEAN : updateLastSeen(p, ok)
  \/ init
  \/ \E c \in RateConns : connection(c)
  \/ \E c \in RateConns, msg \in RateMsgs : handleMessage(c, msg)

SpecSDK == InitSDK /\ [][NextSDK]_vars

TypeOK ==
  /\ signatureLimit \in 1..MaxSignatureLimit
  /\ polling \in BOOLEAN
  /\ pollTimer \in 0..MaxTasks
  /\ \A a \in Addrs : lastSeen[a] \in 0..Len(ledger[a])
  /\ \A a \in Addrs : emitted[a] \subseteq processed[a]
  /\ \A p \in Tasks : task[p].pc \in CyclePcs \cup {"idle", "timer"}
  /\ \A p \in Tasks : task[p].failed \subseteq Ids

\* ----------------------------------------------------------------- claims

\* the step in which chain p emits the 'tip' event of signature s of address a
EmitStep(p, a, s) ==
  /\ task[p].pc = "tx"
  /\ task'[p].pc = "upd"
  /\ task'[p].outcome = "tip"
  /\ a = Head(task[p].todo).pubkey
  /\ s = Head(task[p].page)

\* the step in which chain p begins a poll cycle (passes the guard of poll())
BeginsCycle(p) == task[p].pc \notin CyclePcs /\ task'[p].pc \in CyclePcs

\* C1: no 'tip' event is emitted for a signature of an address for which one
\* has been emitted before.
C1_NoDuplicateEmit ==
  [][\A p \in Tasks, a \in Addrs, s \in Sigs :
       EmitStep(p, a, s) => s \notin emitted[a]]_vars

\* C2: once a cursor is stored, a cursor write never advances past a newer
\* signature on which processTransaction has not been run.
C2_NoSkippedSignature ==
  [][\A a \in Addrs :
       (lastSeen[a] # 0 /\ lastSeen'[a] > lastSeen[a])
         => \A k \in (lastSeen[a] + 1)..lastSeen'[a] : k \in processed'[a]]_vars

\* C3: when the fetch of the transaction of a signature failed, the step that
\* follows it in the cycle leaves the cursor of the address before that signature.
C3_FailedSignatureNotPassed ==
  [][\A p \in Tasks :
       (task[p].pc = "upd" /\ task[p].outcome = "failed" /\ task'[p] # task[p])
         => lastSeen'[Head(task[p].todo).pubkey] < Head(task[p].page)]_vars

\* C4: the cursor never equals or lies past a signature whose transaction is
\* a tip and whose 'tip' event has not been emitted.
C4_EmittedBeforeCursor ==
  \A a \in Addrs : \A s \in 1..lastSeen[a] :
    parseTipTransaction(ledger[a][s]) => s \in emitted[a]

\* C5: at most one poll cycle is in flight.
C5_OneCycleInFlight == Cardinality(InFlight) <= 1

\* C6: a 'tip' event of an address is never emitted after the event of a
\* newer signature of that address.
C6_EmitInChronologicalOrder ==
  [][\A p \in Tasks, a \in Addrs, s \in Sigs :
       EmitStep(p, a, s) => \A e \in emitted[a] : e <= s]_vars

\* C7: the stored cursor of an address never moves backward.
C7_CursorNeverMovesBackward ==
  [][\A a \in Addrs : lastSeen'[a] >= lastSeen[a]]_vars

\* C8: while the engine is stopped no 'tip' event is emitted and no cursor
\* is written.
C8_NothingAfterStop ==
  [][~polling =>
       /\ lastSeen' = lastSeen
       /\ ~ \E p \in Tasks, a \in Addrs, s \in Sigs : EmitStep(p, a, s)]_vars

\* C9: a poll cycle begins only in a step that leaves the engine running:
\* after stop() no cycle begins until start() is called, whatever timer fires.
C9_NoCycleBeginsWhileStopped ==
  [][\A p \in Tasks : BeginsCycle(p) => polling']_vars

\* C9 witness: the engine is stopped and the timer that the cycle in flight
\* at stop() time scheduled has fired without beginning a cycle (stop() left
\* pollTimer null, so the id stored now is of a timer scheduled after it).
C9_Witness ==
  /\ ~polling
  /\ \E p \in Tasks : pollTimer = p /\ task[p].pc = "idle"

\* C10: every cursor write stores a signature that is not older than the one
\* it replaces, on which processTransaction has run, and whose 'tip' event
\* has been emitted if its transaction is a tip.
C10_CursorStoreNeverCorrupted ==
  [][\A a \in Addrs :
       /\ lastSeen'[a] >= lastSeen[a]
       /\ lastSeen'[a] # lastSeen[a] =>
            /\ lastSeen'[a] \in processed'[a]
            /\ parseTipTransaction(ledger'[a][lastSeen'[a]]) => lastSeen'[a] \in emitted'[a]]_vars

\* the step in which the catch block of checkStreamerTips ends the processing
\* of the recipient that chain p has in work
CatchStep(p) ==
  /\ task[p].pc \in {"lastSeen", "sigs", "upd"}
  /\ Head(task[p].todo).id \in task'[p].failed \ task[p].failed

\* C11: an error while a recipient is processed leaves the cursor of that
\* recipient unchanged and the cycle goes on with the remaining recipients:
\* the step that catches the error writes no cursor and passes to the next
\* recipient, and the cursor write that follows a failed transaction fetch
\* does not change the cursor.
C11_RecipientErrorIsolated ==
  [][\A p \in Tasks :
       /\ CatchStep(p) =>
            /\ lastSeen' = lastSeen
            /\ IF Len(task[p].todo) > 1
               THEN task'[p].pc = "lastSeen" /\ task'[p].todo = Tail(task[p].todo)
               ELSE task'[p].pc = "timer"
       /\ (task[p].pc = "upd" /\ task[p].outcome = "failed" /\ task'[p] # task[p])
            => lastSeen'[Head(task[p].todo).pubkey] = lastSeen[Head(task[p].todo).pubkey]]_vars

\* C11, the part that holds: the step that catches an error of one recipient
\* writes no cursor and passes to the next recipient of the cycle.
C11_CaughtErrorIsolated ==
  [][\A p \in Tasks :
       CatchStep(p) =>
         /\ lastSeen' = lastSeen
         /\ IF Len(task[p].todo) > 1
            THEN task'[p].pc = "lastSeen" /\ task'[p].todo = Tail(task[p].todo)
            ELSE task'[p].pc = "timer"]_vars

\* a recipient is in work in a cycle in which an earlier recipient failed
C11_Witness ==
  \E p \in Tasks :
    /\ task[p].pc = "upd"
    /\ task[p].outcome = "tip"
    /\ task[p].failed # {}
    /\ Head(task[p].todo).id \notin task[p].failed

\* C12: emit('tip', data) calls every registered handler once, in registration
\* order, and returns normally, whichever handlers throw.
C12_EveryHandlerInvokedInOrder ==
  /\ lastEmit.calls = lastEmit.handlers
  /\ ~lastEmit.propagated

\* a handler threw and a handler registered after it was called
C12_Witness ==
  /\ Len(lastEmit.handlers) >= 2
  /\ lastEmit.handlers[1] \in lastEmit.bad
  /\ Len(lastEmit.calls) >= 2

\* ---------------------------------------------------- broadcaster claims

\* a step in which broadcastTip is called
PublishStep == pub'.k # pub.k

\* the number of publishes for recipient id that passed the limiter in the
\* trailing window (t - AlertWindowMs, t]
AcceptedInWindow(id, t) ==
  Cardinality({i \in 1..Len(accepted[id]) :
                 accepted[id][i] > t - AlertWindowMs /\ accepted[id][i] <= t})

NoDuplicates(seq) == \A i, j \in 1..Len(seq) : seq[i] = seq[j] => i = j

\* C13: for every recipient and every time t the publishes that passed the
\* limiter in (t - AlertWindowMs, t] number at most MaxAlertsPerWindow, and a
\* publish that arrives when the budget is met is dropped.
C13_RateLimitBound ==
  [][/\ \A id \in Ids, t \in 0..MaxTime : AcceptedInWindow(id, t)' <= MaxAlertsPerWindow
     /\ (PublishStep /\ AcceptedInWindow(pub'.id, now) >= MaxAlertsPerWindow)
          => pub'.result = "dropped"]_vars

\* a publish was dropped with the budget met by publishes of the window, one
\* of them made at an earlier time than the drop
C13_Witness ==
  /\ pub.result = "dropped"
  /\ AcceptedInWindow(pub.id, now) = MaxAlertsPerWindow
  /\ \E i \in 1..Len(accepted[pub.id]) :
       accepted[pub.id][i] < now /\ accepted[pub.id][i] > now - AlertWindowMs

\* C14: on an initialised broadcaster a publish for a recipient with fewer
\* than MaxAlertsPerWindow accepted publishes in the trailing window is
\* accepted and fanned out.
C14_NeverOverThrottles ==
  [][(PublishStep /\ wss /\ AcceptedInWindow(pub'.id, now) < MaxAlertsPerWindow)
       => /\ pub'.result = "done"
          /\ accepted'[pub'.id] = Append(accepted[pub'.id], now)
          /\ \A c \in Range(clients) :
               (IsOpen(c) /\ Subscribed(c, pub'.id)) => c \in Range(pub'.sent)]_vars

\* a publish was accepted and sent to a subscriber after the window of a
\* spent budget had elapsed
C14_Witness ==
  /\ pub.result = "done"
  /\ pub.sent # <<>>
  /\ Len(accepted[pub.id]) > MaxAlertsPerWindow
  /\ accepted[pub.id][Len(accepted[pub.id])] = now
  /\ AcceptedInWindow(pub.id, now) = 1

\* C15: a dropped publish sends nothing, throws nothing, and leaves the rate
\* window and every connection and subscription as they were.
C15_DropHasNoEffect ==
  [][(PublishStep /\ pub'.result = "dropped")
       => /\ pub'.sent = <<>>
          /\ alertCounts' = alertCounts
          /\ accepted' = accepted
          /\ UNCHANGED <<wss, clients, readyState, isAlive, subscriptions>>]_vars

\* a publish was dropped while an open connection was subscribed to its
\* recipient
C15_Witness ==
  /\ pub.result = "dropped"
  /\ pub.targets # {}

\* C16: a publish for a recipient is sent only to connections whose
\* subscription set holds that recipient when broadcastTip is called.
C16_TopicIsolation ==
  [][PublishStep => \A c \in Range(pub'.sent) : pub'.id \in Range(subscriptions[c])]_vars

\* a publish reached a subscriber while another open connection, subscribed
\* only to the other recipient, got nothing
C16_Witness ==
  /\ pub.result = "done"
  /\ pub.sent # <<>>
  /\ \E d \in pub.others : d \notin Range(pub.sent)

\* C17: a closed connection is in neither wss.clients nor the subscription
\* table, and a publish sends nothing to a closed connection and returns
\* normally.
C17_CloseRemovesSubscriptions ==
  [][/\ \A c \in Conns :
          readyState'[c] = 3 => subscriptions'[c] = <<>> /\ c \notin Range(clients')
     /\ (PublishStep /\ wss)
          => /\ pub'.result # "threw"
             /\ \A c \in Range(pub'.sent) : readyState[c] # 3]_vars

\* a publish for a recipient completed after a connection subscribed to
\* that recipient had closed
C17_Witness ==
  /\ pub.result = "done"
  /\ pub.closed # {}

C19_NoSendToClosing ==
  [][PublishStep =>
       \A c \in Range(pub'.sent) :
         readyState[c] = OPEN /\ c \in Range(clients) /\ subscriptions[c] # <<>>]_vars

\* a publish reached a subscriber and passed over a connection that was
\* closing with the recipient still in its subscription set
C19_Witness ==
  /\ pub.result = "done"
  /\ pub.sent # <<>>
  /\ pub.closing # {}

\* C20: a subscription set holds a recipient once however often it is
\* subscribed, a repeated subscribe leaves the table as it was, and a
\* publish sends one message to each connection.
C20_SubscribeIdempotent ==
  [][/\ \A c \in Conns : NoDuplicates(subscriptions'[c])
     /\ \A c \in Conns : (c \in resubscribed' /\ c \notin resubscribed)
          => subscriptions' = subscriptions
     /\ (PublishStep /\ pub'.result = "done") =>
          /\ NoDuplicates(pub'.sent)
          /\ \A c \in resubscribed :
               (c \in Range(clients) /\ IsOpen(c) /\ Subscribed(c, pub'.id))
                 => Cardinality({i \in 1..Len(pub'.sent) : pub'.sent[i] = c}) = 1]_vars

\* a connection that had subscribed twice to its only recipient received
\* the message of a publish for that recipient
C20_Witness ==
  /\ pub.result = "done"
  /\ \E c \in pub.resub :
       /\ c \in Range(pub.sent)
       /\ c \notin pub.failed
       /\ subscriptions[c] = <<pub.id>>
\* C21: the subscription of a connection is the set of all recipients it has
\* subscribed to since it opened; no step other than its close takes a
\* recipient out of it; an accepted publish is sent to every open connection
\* that has subscribed to the recipient, however many they are
C21_SubscriptionIsSet ==
  [][/\ \A c \in Conns : Range(subscriptions'[c]) = everSubscribed'[c]
     /\ \A c \in Conns : readyState'[c] \in {OPEN, 2}
                             => Range(subscriptions[c]) \subseteq Range(subscriptions'[c])
     /\ PublishStep /\ pub'.result = "done"
          => \A c \in Range(clients) :
                readyState[c] = OPEN /\ pub'.id \in everSubscribed[c]
                  => c \in Range(pub'.sent)]_vars

\* two connections received a publish, one of them having subscribed to the
\* recipient after another recipient that it still holds
C21_Witness ==
  /\ pub.result = "done"
  /\ Cardinality(Range(pub.sent)) = 2
  /\ \E c \in Range(pub.sent) :
        Len(subscriptions[c]) = 2 /\ subscriptions[c][2] = pub.id

\* a step of the heartbeat: a ping goes out or a connection is terminated
HeartbeatStep ==
  \E c \in Conns : (~awaiting[c] /\ awaiting'[c]) \/ c \in terminated' \ terminated

\* C22: a heartbeat pings every open connection that has answered its last
\* ping (or was never pinged) and leaves it open; it terminates every open
\* connection whose last ping is unanswered; it terminates no other
C22_HeartbeatLiveness ==
  [][/\ HeartbeatStep
          => \A c \in Range(clients) :
                readyState[c] = OPEN
                  => IF awaiting[c]
                     THEN readyState'[c] = 2 /\ c \in terminated'
                     ELSE awaiting'[c] /\ readyState'[c] = OPEN /\ c \notin terminated'
     /\ \A c \in terminated' \ terminated : awaiting[c]]_vars

\* the second connection was terminated, which takes two heartbeats after
\* it opened; the first one, open since before, answered the earlier of
\* them, is open and holds the ping of a later one
C22_Witness ==
  /\ readyState[ConnOrder[1]] = OPEN /\ awaiting[ConnOrder[1]]
  /\ ConnOrder[2] \in terminated /\ readyState[ConnOrder[2]] = 2

\* a message was ignored
IgnoredStep == ignored'.k # ignored.k

\* C23: an ignored message closes no connection and changes no subscription;
\* a subscribe with a streamer is acted on whatever came before
C23_BadMessageIgnored ==
  [][/\ IgnoredStep => /\ readyState' = readyState
                        /\ clients' = clients
                        /\ subscriptions' = subscriptions
     /\ \A c \in Conns : \A id \in everSubscribed'[c] \ everSubscribed[c] :
           id \in Range(subscriptions'[c])]_vars

\* the connection of the latest ignored message is open and has subscribed
\* to a recipient after that message
C23_Witness ==
  /\ ignored.c \in Conns
  /\ readyState[ignored.c] = OPEN
  /\ Len(subscriptions[ignored.c]) > ignored.subs

\* a call of register returned or threw
RegisterStep == reg'.k # reg.k

\* a field of the call is absent
MissingField(r) ==
  r.streamerId = "" \/ r.pubkey = "" \/ r.message = "" \/ r.signature = NoSig

\* the signature is the one the holder of the secret key of the claimed
\* address makes over the message
ValidProof(r) ==
  /\ r.pubkey \in Pubkeys
  /\ r.signature = [enc |-> "ok", msg |-> r.message, key |-> r.pubkey]

\* C24: register with a missing field returns 'Missing required fields', with
\* all fields and a proof that does not verify 'Invalid signature'; it never
\* throws there and leaves the bindings as they are; the bindings change only
\* in a call whose proof verified, to the binding of that call
C24_RegistrationGate ==
  [][/\ RegisterStep /\ MissingField(reg')
          => /\ reg'.result = "Missing required fields"
             /\ ~reg'.threw /\ streamers' = streamers
     /\ RegisterStep /\ ~MissingField(reg') /\ ~ValidProof(reg')
          => /\ reg'.result = "Invalid signature"
             /\ ~reg'.threw /\ streamers' = streamers
     /\ streamers' # streamers
          => /\ RegisterStep /\ ~MissingField(reg') /\ ValidProof(reg')
             /\ \A id \in Ids :
                   getStreamer(streamers', id) # getStreamer(streamers, id)
                     => /\ id = reg'.streamerId
                        /\ getStreamer(streamers', id)
                             = [pubkey |-> reg'.pubkey, message |-> reg'.message]]_vars

\* a recipient is bound, and the latest call, with all fields and a
\* signature of malformed encoding, was refused
C24_Witness ==
  /\ streamers # <<>>
  /\ reg.result = "Invalid signature"
  /\ ~MissingField(reg)
  /\ reg.signature.enc \in {"bad58", "short"}

\* C25: a register with a proof that verifies and a storage that resolves
\* returns success, whether the recipient was bound or not; afterwards
\* getStreamer of the recipient is the address and message of that call and
\* the binding of every other recipient is what it was
C25_LastWriteWins ==
  [][RegisterStep /\ ~MissingField(reg') /\ ValidProof(reg') /\ reg'.storage = "resolved"
       => /\ reg'.result = "success"
          /\ getStreamer(streamers', reg'.streamerId)
               = [pubkey |-> reg'.pubkey, message |-> reg'.message]
          /\ \A id \in Ids \ {reg'.streamerId} :
                getStreamer(streamers', id) = getStreamer(streamers, id)]_vars

\* the latest call succeeded for a recipient bound before to another address
\* and message, while another recipient is bound
C25_Witness ==
  /\ reg.result = "success"
  /\ reg.rebound
  /\ getStreamer(streamers, reg.streamerId)
       = [pubkey |-> reg.pubkey, message |-> reg.message]
  /\ \E id \in Ids \ {reg.streamerId} : getStreamer(streamers, id) # NoBinding

\* C26: every call of register returns a result object; when the storage
\* rejects the write, the result is a failure with an error, the storage was
\* called once and the bindings are what they were
C26_StorageFailureSurfaced ==
  [][RegisterStep
       => /\ ~reg'.threw
          /\ reg'.result \in {"success", "Missing required fields", "Invalid signature",
                               "Storage error"}
          /\ reg'.storage = "rejected"
               => /\ reg'.result = "Storage error"
                  /\ reg'.attempts = 1
                  /\ streamers' = streamers]_vars

\* the storage rejected the write of a verified binding
C26_Witness ==
  /\ reg.storage = "rejected"
  /\ ValidProof(reg)
  /\ reg.result = "Storage error"

\* C28: a chain in a poll cycle leaves the cycle only by setting the timer of
\* the next one, whatever failed in it; when the timer fires while the engine
\* is running the next cycle begins, and it takes up every registered
\* recipient, those that failed before included
C28_FailingCycleReschedules ==
  [][\A p \in Tasks :
       /\ task[p].pc \in CyclePcs
            => \/ task'[p].pc \in CyclePcs
               \/ task'[p].pc = "timer" /\ pollTimer' = p
       /\ task[p].pc = "timer" /\ task'[p].pc # "timer" /\ polling'
            => task'[p].pc = "getAll"
       /\ task[p].pc = "getAll" /\ task'[p].pc = "lastSeen"
            => task'[p].todo = streamers]_vars

\* a cycle in which a recipient failed has ended, its timer is set and the
\* engine is running
C28_Witness ==
  \E p \in Tasks :
    /\ task[p].pc = "timer" /\ pollTimer = p /\ polling
    /\ task[p].failed # {}

\* the tip that the documentation of parseTipTransaction describes: the
\* position of the target among the accounts and its balance change
TargetAt(p) == CHOOSE i \in DOMAIN p.transaction.accountKeys :
                 p.transaction.accountKeys[i] = p.targetPubkey
Delta(p) == p.transaction.postBalances[TargetAt(p)] - p.transaction.preBalances[TargetAt(p)]
HasTarget(p) ==
  p.transaction.meta /\ \E i \in DOMAIN p.transaction.accountKeys :
                          p.transaction.accountKeys[i] = p.targetPubkey

\* C29: parse returns null when the target is not among the accounts of the
\* transaction or its balance did not grow; otherwise it returns an event
\* whose amount is the growth of the balance
C29_ParseAmount ==
  parsed.result # Pending
    => IF ~HasTarget(parsed) \/ Delta(parsed) <= 0
       THEN parsed.result = Null
       ELSE /\ parsed.result.kind = "event"
            /\ parsed.result.amountLamports = Delta(parsed)

\* an event for the largest growth, and for a target that is not the first
\* account
C29_Witness ==
  /\ parsed.result.kind = "event"
  /\ parsed.result.amountLamports = MaxBalance
  /\ TargetAt(parsed) > 1

\* the accounts other than the target whose balance fell
Decreased(p) ==
  {i \in DOMAIN p.transaction.accountKeys :
     /\ i # TargetAt(p)
     /\ p.transaction.preBalances[i] > p.transaction.postBalances[i]}

\* C30: the sender of an event is the first of the accounts, the target
\* aside, whose balance fell, and "unknown" when there is none; a missing
\* sender does not withhold the event
C30_ParseSender ==
  parsed.result # Pending /\ HasTarget(parsed) /\ Delta(parsed) > 0
    => /\ parsed.result.kind = "event"
       /\ parsed.result.from
            = IF Decreased(parsed) = {}
              THEN "unknown"
              ELSE parsed.transaction.accountKeys[
                     CHOOSE i \in Decreased(parsed) : \A j \in Decreased(parsed) : i <= j]

\* two accounts after the target lost balance and the earlier one is the sender
C30_Witness ==
  /\ parsed.result.kind = "event"
  /\ TargetAt(parsed) = 1
  /\ Decreased(parsed) = {2, 3}
  /\ parsed.result.from = parsed.transaction.accountKeys[2]

\* C27: on the way from the ledger to the subscribers, a tip of a registered
\* recipient is emitted once and not twice; the step that emits it publishes
\* it once for that recipient, and a publish within the rate budget of an
\* initialised broadcaster sends one message to every open connection
\* subscribed to the recipient; the cursor passes no tip that was not emitted
C27_EndToEndDelivery ==
  [][/\ \A p \in Tasks, a \in Addrs, s \in Sigs :
          EmitStep(p, a, s)
            => /\ s \notin emitted[a]
               /\ PublishStep /\ pub'.id = Head(task[p].todo).id
               /\ wss /\ pub'.result # "dropped"
                    => /\ pub'.result = "done"
                       /\ NoDuplicates(pub'.sent)
                       /\ Range(pub'.sent)
                            = {c \in Range(clients) :
                                 readyState[c] = OPEN /\ pub'.id \in everSubscribed[c]}
     /\ PublishStep => \E p \in Tasks, a \in Addrs, s \in Sigs : EmitStep(p, a, s)
     /\ \A a \in Addrs : \A s \in (lastSeen[a] + 1)..lastSeen'[a] :
          ledger[a][s] > 0 => s \in emitted[a]]_vars

\* the part of C27 after the emit: every emitted tip is one publish for its
\* recipient, no publish comes from elsewhere, and a publish within the
\* budget of an initialised broadcaster reaches every open subscribed
\* connection once
C27_EmitIsOnePublish ==
  [][/\ \A p \in Tasks, a \in Addrs, s \in Sigs :
          EmitStep(p, a, s)
            => /\ PublishStep /\ pub'.id = Head(task[p].todo).id
               /\ wss /\ pub'.result # "dropped"
                    => /\ pub'.result = "done"
                       /\ NoDuplicates(pub'.sent)
                       /\ Range(pub'.sent)
                            = {c \in Range(clients) :
                                 readyState[c] = OPEN /\ pub'.id \in everSubscribed[c]}
     /\ PublishStep => \E p \in Tasks, a \in Addrs, s \in Sigs : EmitStep(p, a, s)]_vars

\* the cycle that followed a registration and a tip emitted it, and the
\* subscribed connection received its publish
C27_Witness ==
  /\ reg.result = "success"
  /\ \E a \in Addrs : emitted[a] # {} /\ lastSeen[a] # 0
  /\ pub.result = "done" /\ pub.sent # <<>>

\* C40: whether register accepts a proof depends only on (address, message,
\* signature): two consecutive calls with the same triple are both accepted
\* or both refused, whatever their recipientIds and whatever was registered
\* before, and a call is accepted exactly when the triple is a valid proof
C40_AcceptanceByTripleOnly ==
  [][RegisterStep
       => /\ (reg'.storage # "none") = ValidProof(reg')
          /\ (/\ reg.streamerId # ""
              /\ reg'.pubkey = reg.pubkey /\ reg'.message = reg.message
              /\ reg'.signature = reg.signature)
             => (reg'.storage # "none") = (reg.storage # "none")]_vars

\* a proof accepted for alice and then again for bob, both bound to the
\* same address by the same signed message
C40_Witness ==
  /\ reg.streamerId = "bob" /\ reg.storage = "resolved"
  /\ getStreamer(streamers, "alice") = [pubkey |-> reg.pubkey, message |-> reg.message]
  /\ getStreamer(streamers, "bob") = [pubkey |-> reg.pubkey, message |-> reg.message]
\* the step in which chain p ends its work on a recipient: it goes on to the
\* next recipient or sets the timer of the next cycle
LeavesRecipient(p) ==
  /\ task[p].pc \in {"lastSeen", "sigs", "tx", "upd"}
  /\ task'[p].pc \in {"lastSeen", "timer"}
  /\ task'[p].pc = "lastSeen" => task'[p].todo = Tail(task[p].todo)

\* C32: the page a cycle fetches for a recipient holds at most signatureLimit
\* signatures, the newest of the address last, whatever the cursor was (absent
\* on the first run); every cursor write that resolves stores the signature
\* just processed, tip or not; and when the chain leaves a recipient with a
\* non-empty page and no error reached the catch of checkStreamerTips, the
\* stored cursor is the newest signature of the page.
C32_CursorAtNewestOfPage ==
  [][\A p \in Tasks :
       LET a == Head(task[p].todo).pubkey
           page == task[p].page
       IN  /\ task[p].pc = "sigs" /\ task'[p].pc = "tx"
                => /\ Len(task'[p].page) <= signatureLimit
                   /\ task'[p].page[Len(task'[p].page)] = Len(ledger[a])
                   /\ \A i \in 1..Len(task'[p].page) - 1 :
                        task'[p].page[i + 1] = task'[p].page[i] + 1
           /\ task[p].pc \in {"tx", "upd"} /\ task'[p].pc \in {"tx", "upd"}
                => task'[p].page[Len(task'[p].page)] = page[Len(page)]
           /\ task[p].pc = "upd" /\ task'[p] # task[p]
                 /\ Head(task[p].todo).id \notin task'[p].failed
                => lastSeen'[a] = Head(page)
           /\ LeavesRecipient(p) /\ page # <<>>
                 /\ Head(task[p].todo).id \notin task'[p].failed
                => lastSeen'[a] = page[Len(page)]]_vars

\* a cycle without an error has ended with three transactions on the ledger
\* and a limit of two: the two newest were fetched, the newest is not a tip,
\* and the cursor is on it
C32_Witness ==
  \E p \in Tasks :
    /\ task[p].pc = "timer" /\ task[p].failed = {}
    /\ signatureLimit = 2 /\ Len(ledger["addrX"]) = 3
    /\ processed["addrX"] = {2, 3}
    /\ ledger["addrX"][3] = 0
    /\ lastSeen["addrX"] = 3
\* C31: when processTransaction runs on a tip transaction with a memo
\* instruction whose payload does not decode, the 'tip' event is emitted all
\* the same; its memo is absent unless another memo instruction of the
\* transaction decodes, and never comes from the undecodable payload; the
\* chain goes on to the cursor write, which stores that signature when it
\* resolves.
C31_BadMemoDoesNotAbort ==
  [][\A p \in Tasks :
       LET a == Head(task[p].todo).pubkey
           s == Head(task[p].page)
       IN  /\ (/\ task[p].pc = "tx" /\ task'[p].pc = "upd"
               /\ tipMemo'.tip /\ tipMemo'.undecodable)
                => /\ EmitStep(p, a, s)
                   /\ s \in emitted'[a]
                   /\ tipMemo'.memo = IF tipMemo'.decodable THEN "gm" ELSE "undefined"
                   /\ task'[p].page = task[p].page
           /\ (/\ task[p].pc = "upd" /\ task'[p] # task[p]
               /\ task[p].outcome = "tip" /\ tipMemo.undecodable
               /\ Head(task[p].todo).id \notin task'[p].failed)
                => lastSeen'[a] = s]_vars

\* a tip whose only memo instruction does not decode was emitted without a
\* memo, and the cursor is on it
C31_Witness ==
  /\ tipMemo.tip /\ tipMemo.undecodable /\ ~tipMemo.decodable
  /\ tipMemo.memo = "undefined"
  /\ tipMemo.txHash \in emitted["addrX"]
  /\ lastSeen["addrX"] = tipMemo.txHash
\* C34: two recipientIds bound to the same address share its cursor, so no
\* transaction to that address produces a tip event for both of them.
C34_OneRecipientPerTransaction ==
  (\A i \in 1..Len(streamers) : streamers[i].pubkey = "addrX")
    => emittedFor["alice"] \cap emittedFor["bob"] = {}

\* C34: the recipientId a transaction's tip event is emitted for is the one
\* that comes first in the cycle (first in getAllStreamers).
C34_FirstInCycleGetsTheTip ==
  [][\A p \in Tasks, s \in Sigs :
       EmitStep(p, "addrX", s) /\ Len(streamers) = 2
         => Head(task[p].todo).id = streamers[1].id]_vars

\* both recipients are bound to the address, a cycle has ended, and a tip
\* has been emitted for the first of them only
C34_Witness ==
  /\ Len(streamers) = 2
  /\ \E p \in Tasks : task[p].pc = "timer"
  /\ emittedFor[streamers[1].id] # {}
  /\ emittedFor[streamers[2].id] = {}
\* C35: a tip whose publish failed because the broadcaster had no WebSocket
\* server yet is not delivered to a connection by a later emit.
C35_LostTipNeverDelivered ==
  [][\A p \in Tasks, a \in Addrs, s \in Sigs :
       EmitStep(p, a, s) /\ s \in lost[a]
         => ~(PublishStep /\ pub'.result = "done" /\ pub'.sent # <<>>)]_vars

\* the part of C35 inside the cycle: the emit of a tip before init() calls
\* broadcastTip, which throws (or returns at the rate limit) and whose
\* exception stays in emit: nothing is sent, the chain goes on to the cursor
\* write with its page untouched, and the write stores that signature when
\* it resolves
C35_PublishFailureContained ==
  [][\A p \in Tasks, a \in Addrs, s \in Sigs :
       /\ EmitStep(p, a, s) /\ ~wss
            => /\ PublishStep /\ pub'.result \in {"threw", "dropped"} /\ pub'.sent = <<>>
               /\ task'[p].page = task[p].page /\ task'[p].todo = task[p].todo
       /\ (/\ task[p].pc = "upd" /\ task'[p] # task[p]
           /\ a = Head(task[p].todo).pubkey /\ s = Head(task[p].page)
           /\ s \in lost[a] /\ Head(task[p].todo).id \notin task'[p].failed)
            => lastSeen'[a] = s]_vars

\* a tip was emitted before init(), its publish threw, and the cursor is on it
C35_Witness ==
  \E a \in Addrs :
    /\ lost[a] # {} /\ lastSeen[a] \in lost[a]
    /\ pub.result = "threw" /\ ~wss
\* C33: once a registerStreamer and an updateLastSeen of the Lowdb adapter
\* have both completed, the file holds the binding and the cursor, and a
\* getStreamer or getLastSeen called after that returns them.
C33_BothWritesSurvive ==
  (\A w \in DbWriters : dbCall[w].pc = "done")
    => /\ dbCall["registerStreamer"].arg \in dbFile.streamers
       /\ dbFile.lastSeen = dbCall["updateLastSeen"].arg
       /\ (/\ dbCall["getStreamer"].pc = "done" /\ dbCall["getStreamer"].after
           /\ dbCall["getStreamer"].arg = dbCall["registerStreamer"].arg)
            => dbCall["getStreamer"].result = "addrX"
       /\ (dbCall["getLastSeen"].pc = "done" /\ dbCall["getLastSeen"].after)
            => dbCall["getLastSeen"].result = dbCall["updateLastSeen"].arg

\* the same for writers of which one read the file after the other's text
\* had reached it: that one keeps the other's write
C33_SequentialWritesSurvive ==
  (/\ \A w \in DbWriters : dbCall[w].pc = "done"
   /\ \E w \in DbWriters : dbCall[w].buf # EmptyDb)
    => /\ dbCall["registerStreamer"].arg \in dbFile.streamers
       /\ dbFile.lastSeen = dbCall["updateLastSeen"].arg

\* both writers have completed, one after the other, and a reader called
\* afterwards has returned the cursor
C33_Witness ==
  /\ \A w \in DbWriters : dbCall[w].pc = "done"
  /\ dbCall["registerStreamer"].arg \in dbFile.streamers
  /\ dbFile.lastSeen = dbCall["updateLastSeen"].arg
  /\ dbCall["getLastSeen"].pc = "done" /\ dbCall["getLastSeen"].after
  /\ dbCall["getLastSeen"].result = dbFile.lastSeen
\* ---------------------------------------------------------- client claims
\* the steps in which onclose and onopen run
CloseStep == cev'.k # cev.k /\ cev'.type = "close"
OpenStep == cev'.k # cev.k /\ cev'.type = "open"

\* no socket is created in the step
NoNewSocket == \A i \in Sockets : sock'[i] = CONNECTING => sock[i] = CONNECTING

\* C36: a close after 10 reconnect attempts without an open in between emits
\* maxReconnectReached and sets no timer; a close below the ceiling counts one
\* attempt and sets one timer; timers are set by closes only; the counter
\* never passes 10 and goes down only in onopen, to 0.
C36_ReconnectCeiling ==
  [][/\ CloseStep /\ reconnectAttempts >= 10
          => /\ cev'.events = <<"disconnected", "maxReconnectReached">>
             /\ timeouts' = timeouts /\ NoNewSocket
             /\ reconnectAttempts' = reconnectAttempts
     /\ CloseStep /\ reconnectAttempts < 10
          => /\ cev'.events = <<"disconnected">>
             /\ timeouts' = timeouts + 1
             /\ reconnectAttempts' = reconnectAttempts + 1
     /\ timeouts' > timeouts => CloseStep
     /\ reconnectAttempts' <= 10
     /\ reconnectAttempts' < reconnectAttempts => OpenStep /\ reconnectAttempts' = 0
     /\ OpenStep => reconnectAttempts' = 0]_vars

\* the tenth reconnect attempt has closed: the client has given up, no timer
\* is pending and no socket is left
C36_Witness ==
  /\ reconnectAttempts = 10
  /\ cev.type = "close" /\ cev.events = <<"disconnected", "maxReconnectReached">>
  /\ timeouts = 0
  /\ \A i \in Sockets : sock[i] = CLOSED

\* the step in which reconnect() sets a timer
ScheduleStep == timeouts' = timeouts + 1

\* C37: the delay before the n-th consecutive reconnect attempt is n x 2000
\* ms: each timer reconnect() sets is 2000 ms longer than the one before in
\* the same run of failures, and the first after an open (or after the
\* construction) is 2000 ms.
C37_LinearBackoff ==
  [][ScheduleStep
       => /\ reconnectAttempts' = reconnectAttempts + 1
          /\ delay' = 2000 * reconnectAttempts'
          /\ reconnectAttempts = 0 => delay' = 2000
          /\ reconnectAttempts > 0 => delay = 2000 * reconnectAttempts /\ delay' > delay]_vars

\* after three closes in a row without an open the third timer is set to
\* 6000 ms
C37_Witness ==
  /\ reconnectAttempts = 3 /\ delay = 6000
  /\ cev.type = "close" /\ timeouts = 1

\* C38: after disconnect() on a connected client, and until the application
\* calls connect() again, the client creates no socket and sets no reconnect
\* timer.
C38_StaysDisconnected ==
  [][wanted = "disconnect" /\ wanted' = "disconnect"
       => NoNewSocket /\ timeouts' <= timeouts]_vars

\* C39: the step in which a connection opens sends one subscribe on that
\* connection and leaves exactly one heartbeat timer running; after a close
\* none is running; at no time more than one; a subscribe or a ping is sent
\* only on an OPEN connection.
C39_OneSubscribeOneHeartbeat ==
  [][/\ OpenStep => /\ cev'.subscribe = cev'.socket
                    /\ pingInterval' /\ heartbeats' = 1
     /\ CloseStep => ~pingInterval' /\ heartbeats' = 0
     /\ heartbeats' <= 1
     /\ cev'.subscribe # 0 \/ cev'.ping # 0 => cev'.state = OPEN]_vars

\* a reconnect has opened: the subscribe went out on the new connection and
\* one heartbeat timer runs
C39_Witness ==
  /\ cev.type = "open" /\ cev.subscribe = cev.socket /\ cev.socket = ws
  /\ heartbeats = 1 /\ pingInterval
  /\ delay > 0
====
